---- MODULE Spec2Model ----
(***************************************************************************)
(* Release reconciliation engine of provider-helm: the Observe / Create /  *)
(* Update / Delete operations of helmExternal, the drift check isUpToDate, *)
(* the value composer, the patch hasher and the rollback-retry policy.     *)
(*                                                                         *)
(* Go pointers are modelled as sets of at most one element ({} is nil),    *)
(* Go errors as strings (NoErr is the nil error, errors.Wrap prefixes the  *)
(* message), Go maps as functions over a finite set of keys.               *)
(***************************************************************************)
EXTENDS Integers, Sequences, FiniteSets, TLC

VARIABLES cr, kube, tkube, helm, last, rbCalls, limitStable, specEdited

vars == <<cr, kube, tkube, helm, last, rbCalls, limitStable, specEdited>>

(***************************************************************************)
(* Bounds of the model.                                                    *)
(***************************************************************************)
MaxLimit == 3

MaxRevision == 3

(***************************************************************************)
(* Pointers and errors.                                                    *)
(***************************************************************************)
NilPtr == {}

Ptr(x) == {x}

Deref(p) == CHOOSE x \in p : TRUE

NoErr == "nil"

Wrap(err, msg) == IF err = NoErr THEN NoErr ELSE msg \o ": " \o err

(***************************************************************************)
(* Error messages and constants of the controller.                         *)
(***************************************************************************)
errFailedToGetLastRelease == "failed to get last helm release"

errLastReleaseIsNil == "last helm release is nil"

errFailedToCheckIfUpToDate == "failed to check if release is up to date"

errFailedToInstall == "failed to install release"

errFailedToUpgrade == "failed to upgrade release"

errFailedToUninstall == "failed to uninstall release"

errFailedToGetRepoCreds == "failed to get user name and password from secret reference"

errFailedToComposeValues == "failed to compose values"

errFailedToLoadPatches == "failed to load patches"

errFailedToSetName == "failed to update chart spec with the name from URL"

errFailedToSetVersion == "failed to update chart spec with the latest version"

errFailedToCreateNamespace == "failed to create namespace for release"

errCannotGetConnectionDetails == "cannot get connection details"

errReleaseInfoNilInObservedRelease == "release info is nil in observed helm release"

errChartNilInObservedRelease == "chart field is nil in observed helm release"

errChartMetaNilInObservedRelease == "chart metadata field is nil in observed helm release"

errObjectNotPartOfRelease == "object is not part of release"

devel == ">0.0.0-0"

keyDefaultValuesFrom == "values.yaml"

keyDefaultSet == "value"

keyDefaultPatchFrom == "patch.yaml"

errFailedToUnmarshalDesiredValues == "failed to unmarshal desired values"

errFailedParsingSetData == "failed parsing --set data"

errFailedToGetValueFromSource == "failed to get value from source"

errMissingValueForSet == "missing value for --set"

errFailedToUnmarshallPatch == "failed to unmarshal patch"

errFailedToGetSecret == "failed to get secret"

errSecretDataIsNil == "secret data is nil"

errFailedToGetConfigMap == "failed to get configmap"

errConfigMapDataIsNil == "configmap data is nil"

errSourceNotSetForValueFrom == "source not set for value from"

errFailedToGetDataFromSecretRef == "failed to get data from secret ref"

errFailedToGetDataFromConfigMapRef == "failed to get data from configmap ref"

errMissingKeyForValuesFrom == "missing key in values from source"

errNotFound == "not found"

errForbidden == "forbidden"

errAlreadyExists == "already exists"

ErrReleaseNotFound == "release: not found"

errHelm == "helm: operation failed"

errKubeUpdate == "update failed"

(* helm release.Status values *)
StatusDeployed == "deployed"

StatusFailed == "failed"

StatusPendingInstall == "pending-install"

StatusPendingUpgrade == "pending-upgrade"

StatusPendingRollback == "pending-rollback"

(***************************************************************************)
(* Helm values: a nested mapping.  A node is a scalar (float64 when it     *)
(* comes out of YAML/JSON decoding, int64 or string when it comes out of   *)
(* strvals) or a mapping from keys to nodes.                               *)
(***************************************************************************)
EmptyMap == [x \in {} |-> 0]

F(n) == [k |-> "float", n |-> n, s |-> "", m |-> EmptyMap]

I(n) == [k |-> "int", n |-> n, s |-> "", m |-> EmptyMap]

S(str) == [k |-> "string", n |-> 0, s |-> str, m |-> EmptyMap]

M(f) == [k |-> "map", n |-> 0, s |-> "", m |-> f]

MapOf(p) == IF p = NilPtr THEN EmptyMap ELSE Deref(p)

KeyOrder == <<"a", "b", "c">>

(* yaml.Unmarshal of a values document into map[string]interface{} *)
yamlUnmarshal(text) ==
  CASE text = ""          -> [err |-> NoErr, m |-> EmptyMap]
    [] text = "a: 1"      -> [err |-> NoErr, m |-> [a |-> F(1)]]
    [] text = "{a: 1}"    -> [err |-> NoErr, m |-> [a |-> F(1)]]
    [] text = "a: 2"      -> [err |-> NoErr, m |-> [a |-> F(2)]]
    [] text = "b: 1"      -> [err |-> NoErr, m |-> [b |-> F(1)]]
    [] text = "a: {b: 1}" -> [err |-> NoErr, m |-> [a |-> M([b |-> F(1)])]]
    [] text = "a: {c: 2}" -> [err |-> NoErr, m |-> [a |-> M([c |-> F(2)])]]
    [] OTHER              -> [err |-> "yaml: cannot unmarshal", m |-> EmptyMap]

(* the typed value strvals gives to the right-hand side of name=value *)
typedVal(v) ==
  CASE v = "1" -> I(1)
    [] v = "2" -> I(2)
    [] OTHER   -> S(v)

(* strvals.ParseInto("name=value", base) for a name without path syntax *)
ParseInto(name, v, base) ==
  IF name = "" THEN [err |-> "key map \"\" has no value", m |-> base]
  ELSE [err |-> NoErr,
        m |-> [x \in (DOMAIN base) \cup {name} |-> IF x = name THEN typedVal(v) ELSE base[x]]]

RECURSIVE mergeMaps(_, _)
mergeMaps_shallow(a, b) ==
  [x \in (DOMAIN a) \cup (DOMAIN b) |-> IF x \in DOMAIN b THEN b[x] ELSE a[x]]

mergeMaps(a, b) ==
  [x \in (DOMAIN a) \cup (DOMAIN b) |->
     IF x \notin DOMAIN b THEN a[x]
     ELSE IF b[x].k = "map" /\ x \in DOMAIN a /\ a[x].k = "map"
          THEN M(mergeMaps(a[x].m, b[x].m))
          ELSE b[x]]

(* yaml.Marshal: keys in sorted order, numbers printed without their Go type *)
RECURSIVE marshalFrom(_, _)
RECURSIVE marshalNode(_)
marshalNode(nd) ==
  CASE nd.k = "map"    -> "{" \o marshalFrom(nd.m, 1) \o "}"
    [] nd.k = "string" -> nd.s
    [] OTHER           -> ToString(nd.n)

marshalFrom(f, i) ==
  IF i > Len(KeyOrder) THEN ""
  ELSE IF KeyOrder[i] \in DOMAIN f
       THEN KeyOrder[i] \o ": " \o marshalNode(f[KeyOrder[i]]) \o "," \o marshalFrom(f, i + 1)
       ELSE marshalFrom(f, i + 1)

yamlMarshal(p) == IF p = NilPtr THEN "null" ELSE "{" \o marshalFrom(Deref(p), 1) \o "}"

(***************************************************************************)
(* Data-source resolver.  A control-plane object is                        *)
(* [get |-> error of the GET, data |-> nil or the key -> text mapping].    *)
(***************************************************************************)
getSecretData(k, name) ==
  IF k[name].get # NoErr
  THEN [d |-> NilPtr, err |-> Wrap(k[name].get, errFailedToGetSecret), cause |-> k[name].get]
  ELSE IF k[name].data = NilPtr
       THEN [d |-> NilPtr, err |-> errSecretDataIsNil, cause |-> errSecretDataIsNil]
       ELSE [d |-> k[name].data, err |-> NoErr, cause |-> NoErr]

getConfigMapData(k, name) ==
  IF k[name].get # NoErr
  THEN [d |-> NilPtr, err |-> Wrap(k[name].get, errFailedToGetConfigMap), cause |-> k[name].get]
  ELSE IF k[name].data = NilPtr
       THEN [d |-> NilPtr, err |-> errConfigMapDataIsNil, cause |-> errConfigMapDataIsNil]
       ELSE [d |-> k[name].data, err |-> NoErr, cause |-> NoErr]

valueAtKey_defaultKeyOnly(g, r, defaultKey, wrapMsg) ==
  LET notFound == g.err # NoErr /\ g.cause = errNotFound
      ok == g.d # NilPtr /\ defaultKey \in DOMAIN Deref(g.d)
  IN IF g.err # NoErr /\ ~(notFound /\ r.optional)
     THEN [val |-> "", err |-> Wrap(g.err, wrapMsg), reads |-> {r.name}]
     ELSE IF ~ok /\ ~r.optional
          THEN [val |-> "", err |-> errMissingKeyForValuesFrom, reads |-> {r.name}]
          ELSE [val |-> IF ok THEN Deref(g.d)[defaultKey] ELSE "", err |-> NoErr,
                reads |-> {r.name}]

(* the part of getDataValueFromSource shared by its two branches: g is what *)
(* getSecretData / getConfigMapData returned for the reference r            *)
valueAtKey(g, r, defaultKey, wrapMsg) ==
  LET notFound == g.err # NoErr /\ g.cause = errNotFound
      key == IF r.key # "" THEN r.key ELSE defaultKey
      ok == g.d # NilPtr /\ key \in DOMAIN Deref(g.d)
  IN IF notFound /\ ~r.optional
     THEN [val |-> "", err |-> Wrap(g.err, wrapMsg), reads |-> {r.name}]
     ELSE IF g.err # NoErr /\ ~notFound
          THEN [val |-> "", err |-> Wrap(g.err, wrapMsg), reads |-> {r.name}]
          ELSE IF ~ok /\ ~r.optional
               THEN [val |-> "", err |-> errMissingKeyForValuesFrom, reads |-> {r.name}]
               ELSE [val |-> IF ok THEN Deref(g.d)[key] ELSE "", err |-> NoErr, reads |-> {r.name}]

getDataValueFromSource(k, source, defaultKey) ==
  IF source.secretKeyRef # NilPtr
  THEN valueAtKey(getSecretData(k, Deref(source.secretKeyRef).name),
                  Deref(source.secretKeyRef), defaultKey, errFailedToGetDataFromSecretRef)
  ELSE IF source.configMapKeyRef # NilPtr
       THEN valueAtKey(getConfigMapData(k, Deref(source.configMapKeyRef).name),
                       Deref(source.configMapKeyRef), defaultKey, errFailedToGetDataFromConfigMapRef)
       ELSE [val |-> "", err |-> errSourceNotSetForValueFrom, reads |-> {}]

(***************************************************************************)
(* Value composer: valuesFrom in order, then the inline values, then the   *)
(* set entries in order.  The result carries the names of the objects read.*)
(***************************************************************************)
RECURSIVE valuesFromLoop(_, _, _, _, _)
(* the body of the valuesFrom loop for entry i: s is what its source returned *)
valuesFromEntry(k, vfs, i, base, reads, s) ==
  LET u == yamlUnmarshal(s.val)
  IN IF s.err # NoErr
     THEN [vals |-> NilPtr, err |-> Wrap(s.err, errFailedToGetValueFromSource),
           reads |-> reads \cup s.reads]
     ELSE IF u.err # NoErr
          THEN [vals |-> NilPtr, err |-> Wrap(u.err, errFailedToUnmarshalDesiredValues),
                reads |-> reads \cup s.reads]
          ELSE valuesFromLoop(k, vfs, i + 1, mergeMaps(base, u.m), reads \cup s.reads)

valuesFromLoop(k, vfs, i, base, reads) ==
  IF i > Len(vfs) THEN [vals |-> Ptr(base), err |-> NoErr, reads |-> reads]
  ELSE valuesFromEntry(k, vfs, i, base, reads,
                       getDataValueFromSource(k, vfs[i], keyDefaultValuesFrom))

RECURSIVE setLoop(_, _, _, _, _)
setStep_skipEmpty(k, set, i, base, reads, r) ==
  LET pi == ParseInto(set[i].name, r.val, base)
  IN IF r.err # NoErr
     THEN [vals |-> NilPtr, err |-> Wrap(r.err, errFailedToGetValueFromSource),
           reads |-> reads \cup r.reads]
     ELSE IF r.val = ""
          THEN setLoop(k, set, i + 1, base, reads \cup r.reads)
          ELSE IF pi.err # NoErr
               THEN [vals |-> NilPtr, err |-> Wrap(pi.err, errFailedParsingSetData),
                     reads |-> reads \cup r.reads]
               ELSE setLoop(k, set, i + 1, pi.m, reads \cup r.reads)

(* the body of the set loop for entry i: r is the value of the entry *)
setStep(k, set, i, base, reads, r) ==
  LET pi == ParseInto(set[i].name, r.val, base)
  IN IF r.err # NoErr
     THEN [vals |-> NilPtr, err |-> Wrap(r.err, errFailedToGetValueFromSource),
           reads |-> reads \cup r.reads]
     ELSE IF r.val = ""
          THEN [vals |-> NilPtr, err |-> errMissingValueForSet, reads |-> reads \cup r.reads]
          ELSE IF pi.err # NoErr
               THEN [vals |-> NilPtr, err |-> Wrap(pi.err, errFailedParsingSetData),
                     reads |-> reads \cup r.reads]
               ELSE setLoop(k, set, i + 1, pi.m, reads \cup r.reads)

setValue_inlineFallback(k, s) ==
  LET r == getDataValueFromSource(k, Deref(s.valueFrom), keyDefaultSet)
  IN IF s.valueFrom = NilPtr THEN [val |-> s.value, err |-> NoErr, reads |-> {}]
     ELSE IF r.err = NoErr /\ r.val = "" THEN [r EXCEPT !.val = s.value]
     ELSE r

(* v of the set loop: the inline value, replaced by what valueFrom resolves to *)
(* when the entry has one *)
setValue(k, s) ==
  IF s.valueFrom # NilPtr
  THEN getDataValueFromSource(k, Deref(s.valueFrom), keyDefaultSet)
  ELSE [val |-> s.value, err |-> NoErr, reads |-> {}]

setLoop(k, set, i, base, reads) ==
  IF i > Len(set) THEN [vals |-> Ptr(base), err |-> NoErr, reads |-> reads]
  ELSE setStep(k, set, i, base, reads, setValue(k, set[i]))

(* the inline values and the set entries, on top of vf, the result of the valuesFrom loop *)
composeInline(k, spec, vf) ==
  LET inl == yamlUnmarshal(spec.values)
  IN IF vf.err # NoErr THEN vf
     ELSE IF inl.err # NoErr
          THEN [vals |-> NilPtr, err |-> Wrap(inl.err, errFailedToUnmarshalDesiredValues),
                reads |-> vf.reads]
          ELSE setLoop(k, spec.set, 1, mergeMaps(Deref(vf.vals), inl.m), vf.reads)

composeValuesFromSpec(k, spec) ==
  composeInline(k, spec, valuesFromLoop(k, spec.valuesFrom, 1, EmptyMap, {}))

(***************************************************************************)
(* Patch pipeline: patch documents, their list of patches, the digest.     *)
(***************************************************************************)
(* yaml.Unmarshal of a patch document into struct{Patches []ktypes.Patch} *)
patchUnmarshal(text) ==
  CASE text = "patches: [p1]"     -> [err |-> NoErr, patches |-> <<"p1">>]
    [] text = "patches:\n- p1"    -> [err |-> NoErr, patches |-> <<"p1">>]
    [] text = "patches: [p2]"     -> [err |-> NoErr, patches |-> <<"p2">>]
    [] text = "patches: [p1, p2]" -> [err |-> NoErr, patches |-> <<"p1", "p2">>]
    [] text = "patches: []"       -> [err |-> NoErr, patches |-> <<>>]
    [] OTHER                      -> [err |-> "yaml: cannot unmarshal", patches |-> <<>>]

RECURSIVE jsonMarshal(_)
jsonMarshal(patches) ==
  IF patches = <<>> THEN ""
  ELSE "{" \o Head(patches) \o "}" \o jsonMarshal(Tail(patches))

shaOf_head(patches) ==
  IF Len(patches) = 0 THEN "" ELSE "sha256[" \o jsonMarshal(<<Head(patches)>>) \o "]"

(* fmt.Sprintf("%x", sha256.Sum256(json)): lower-case hex, injective on the model's lists *)
shaOf(patches) ==
  IF Len(patches) = 0 THEN "" ELSE "sha256[" \o jsonMarshal(patches) \o "]"

(* the upper-case spelling of a digest, and its folding back *)
ToUpper(sum) ==
  CASE sum = "sha256[{p1}]"     -> "SHA256[{P1}]"
    [] sum = "sha256[{p2}]"     -> "SHA256[{P2}]"
    [] sum = "sha256[{p1}{p2}]" -> "SHA256[{P1}{P2}]"
    [] OTHER                    -> sum

EqualFold(x, y) == ToUpper(x) = ToUpper(y)

RECURSIVE getFromSpecLoop(_, _, _, _, _)
(* the body of the patchesFrom loop for entry i: s is what its source returned *)
getFromSpecEntry(k, vals, i, base, reads, s) ==
  LET u == patchUnmarshal(s.val)
  IN IF s.err # NoErr
     THEN [patches |-> <<>>, err |-> Wrap(s.err, errFailedToGetValueFromSource),
           reads |-> reads \cup s.reads]
     ELSE IF s.val = ""
          THEN getFromSpecLoop(k, vals, i + 1, base, reads \cup s.reads)
          ELSE IF u.err # NoErr
               THEN [patches |-> <<>>, err |-> Wrap(u.err, errFailedToUnmarshallPatch),
                     reads |-> reads \cup s.reads]
               ELSE getFromSpecLoop(k, vals, i + 1, base \o u.patches, reads \cup s.reads)

getFromSpecLoop(k, vals, i, base, reads) ==
  IF i > Len(vals) THEN [patches |-> base, err |-> NoErr, reads |-> reads]
  ELSE getFromSpecEntry(k, vals, i, base, reads,
                        getDataValueFromSource(k, vals[i], keyDefaultPatchFrom))

getFromSpec(k, vals) == getFromSpecLoop(k, vals, 1, <<>>, {})

hasUpdates_never(k, in, s) == [changed |-> FALSE, err |-> NoErr, reads |-> {}]

shaChanged_firstOnly(g, s) ==
  IF g.err # NoErr THEN [changed |-> FALSE, err |-> g.err, reads |-> g.reads]
  ELSE [changed |-> s.patchesSha = "" /\ shaOf(g.patches) # "", err |-> NoErr, reads |-> g.reads]

shaChanged_exact(g, s) ==
  IF g.err # NoErr THEN [changed |-> FALSE, err |-> g.err, reads |-> g.reads]
  ELSE [changed |-> shaOf(g.patches) # s.patchesSha, err |-> NoErr, reads |-> g.reads]

(* the comparison of the digest of the loaded patches g with the recorded one *)
shaChanged(g, s) ==
  IF g.err # NoErr THEN [changed |-> FALSE, err |-> g.err, reads |-> g.reads]
  ELSE [changed |-> ~EqualFold(shaOf(g.patches), s.patchesSha), err |-> NoErr,
        reads |-> g.reads]

hasUpdates(k, in, s) == shaChanged(getFromSpec(k, in), s)

(***************************************************************************)
(* Observation of a helm release and the drift check.                      *)
(* A release is [name, namespace, info, version, chart, config] with       *)
(* info = nil or [status, description], chart = nil or [metadata] and      *)
(* metadata = nil or [name, version], config = nil or a mapping.           *)
(***************************************************************************)
ZeroObservation == [state |-> "", releaseDescription |-> "", revision |-> 0]

generateObservation(in) ==
  IF in.info # NilPtr
  THEN [state |-> Deref(in.info).status,
        releaseDescription |-> Deref(in.info).description,
        revision |-> in.version]
  ELSE ZeroObservation

isPending_noRollback(s) == s = StatusPendingInstall \/ s = StatusPendingUpgrade

isPending(s) ==
  s = StatusPendingInstall \/ s = StatusPendingUpgrade \/ s = StatusPendingRollback

versionDiffers_strict(in, ocm) == in.chart.version # ocm.version

versionDiffers_develObserved(in, ocm) == in.chart.version # ocm.version /\ ocm.version # devel

(* the version test of the drift check: a mismatch counts unless the spec asks for devel *)
versionDiffers(in, ocm) == in.chart.version # ocm.version /\ in.chart.version # devel

(* the observed config with nil replaced by the empty mapping *)
observedConfigOf(observed) ==
  IF observed.config = NilPtr THEN Ptr(EmptyMap) ELSE observed.config

(* the end of isUpToDate: desired are the composed values, ch the result of hasUpdates *)
compareDesired(desired, ch, observed) ==
  IF desired.err # NoErr
  THEN [ok |-> FALSE, err |-> Wrap(desired.err, errFailedToComposeValues),
        reads |-> desired.reads]
  ELSE IF yamlMarshal(desired.vals) # yamlMarshal(observedConfigOf(observed))
  THEN [ok |-> FALSE, err |-> NoErr, reads |-> desired.reads]
  ELSE IF ch.err # NoErr
  THEN [ok |-> FALSE, err |-> Wrap(ch.err, errFailedToLoadPatches),
        reads |-> desired.reads \cup ch.reads]
  ELSE [ok |-> ~ch.changed, err |-> NoErr, reads |-> desired.reads \cup ch.reads]

isUpToDate(k, in, observed, s) ==
  IF observed.info = NilPtr
  THEN [ok |-> FALSE, err |-> errReleaseInfoNilInObservedRelease, reads |-> {}]
  ELSE IF isPending(Deref(observed.info).status)
  THEN [ok |-> FALSE, err |-> NoErr, reads |-> {}]
  ELSE IF observed.chart = NilPtr
  THEN [ok |-> FALSE, err |-> errChartNilInObservedRelease, reads |-> {}]
  ELSE IF Deref(observed.chart).metadata = NilPtr
  THEN [ok |-> FALSE, err |-> errChartMetaNilInObservedRelease, reads |-> {}]
  ELSE IF in.chart.name # Deref(Deref(observed.chart).metadata).name
  THEN [ok |-> FALSE, err |-> NoErr, reads |-> {}]
  ELSE IF versionDiffers(in, Deref(Deref(observed.chart).metadata))
  THEN [ok |-> FALSE, err |-> NoErr, reads |-> {}]
  ELSE compareDesired(composeValuesFromSpec(k, in), hasUpdates(k, in.patchesFrom, s), observed)

updateExcluded_never(policies) == FALSE

(* the management policies, when set, name neither Update nor all actions *)
updateExcluded(policies) == policies # {} /\ "Update" \notin policies /\ "*" \notin policies

(* the drift check that takes the whole ReleaseSpec: isUpToDate with the   *)
(* management-policy step between the checks of the observed release and   *)
(* the comparison of the chart name                                        *)
isUpToDateOfSpec(k, spec, observed, s) ==
  IF observed.info # NilPtr /\ ~isPending(Deref(observed.info).status)
       /\ observed.chart # NilPtr /\ Deref(observed.chart).metadata # NilPtr
       /\ updateExcluded(spec.managementPolicies)
  THEN [ok |-> TRUE, err |-> NoErr, reads |-> {}]
  ELSE isUpToDate(k, spec.forProvider, observed, s)

(***************************************************************************)
(* Connection details read from objects of the target cluster.  An object  *)
(* is [get, annotations, fields] where get is the error of its GET,        *)
(* annotations its annotations (the empty map when it has none) and fields *)
(* maps a field path to the printed value found there.                     *)
(***************************************************************************)
helmReleaseNameAnnotation == "meta.helm.sh/release-name"

helmReleaseNamespaceAnnotation == "meta.helm.sh/release-namespace"

partOfRelease_nameOnly(u, relName, relNamespace) ==
  LET a == u.annotations
      get(key) == IF key \in DOMAIN a THEN a[key] ELSE ""
  IN get(helmReleaseNameAnnotation) = relName

(* a[key] of a Go map is "" for a key the map does not hold *)
partOfRelease(u, relName, relNamespace) ==
  LET a == u.annotations
      get(key) == IF key \in DOMAIN a THEN a[key] ELSE ""
  IN get(helmReleaseNameAnnotation) = relName
       /\ get(helmReleaseNamespaceAnnotation) = relNamespace

(* base64.StdEncoding.DecodeString *)
base64Decode(str) ==
  CASE str = "MTIzNDU=" -> [bytes |-> "12345", err |-> NoErr]
    [] str = ""         -> [bytes |-> "", err |-> NoErr]
    [] OTHER            -> [bytes |-> "", err |-> "illegal base64 data"]

isSecretData(cd) ==
  cd.kind = "Secret" /\ cd.apiVersion = "v1" /\ cd.fieldPath \in {"data", "data.db-password"}

RECURSIVE connectionDetailsLoop(_, _, _, _, _, _, _)
connectionDetailsLoop(tk, cds, i, relName, relNamespace, mcd, reads) ==
  IF i > Len(cds) THEN [cd |-> mcd, err |-> NoErr, reads |-> reads]
  ELSE LET c == cds[i]
           ro == tk[c.name]
           rd == reads \cup {c.name}
           dec == base64Decode(ro.fields[c.fieldPath])
           fv == IF isSecretData(c) THEN dec.bytes ELSE ro.fields[c.fieldPath]
       IN IF ro.get # NoErr
          THEN [cd |-> mcd, err |-> Wrap(ro.get, "cannot get object"), reads |-> rd]
          ELSE IF ~c.skipPartOfReleaseCheck /\ ~partOfRelease(ro, relName, relNamespace)
          THEN [cd |-> mcd, err |-> errObjectNotPartOfRelease, reads |-> rd]
          ELSE IF c.fieldPath \notin DOMAIN ro.fields
          THEN [cd |-> mcd, err |-> "failed to get value at fieldPath", reads |-> rd]
          ELSE IF isSecretData(c) /\ dec.err # NoErr
          THEN [cd |-> mcd, err |-> Wrap(dec.err, "failed to decode secret data"), reads |-> rd]
          ELSE connectionDetailsLoop(tk, cds, i + 1, relName, relNamespace,
                 [x \in (DOMAIN mcd) \cup {c.toConnectionSecretKey} |->
                    IF x = c.toConnectionSecretKey THEN fv ELSE mcd[x]], rd)

connectionDetails(tk, connDetails, relName, relNamespace) ==
  connectionDetailsLoop(tk, connDetails, 1, relName, relNamespace, EmptyMap, {})

(***************************************************************************)
(* Rollback predicate.                                                     *)
(***************************************************************************)
rollBackEnabled(c) == c.spec.rollbackRetriesLimit # NilPtr

shouldRollBack_anyFailed(c) ==
  rollBackEnabled(c) /\
    \/ c.status.atProvider.state = StatusFailed
    \/ c.status.atProvider.state = StatusPendingInstall
    \/ c.status.atProvider.state = StatusPendingUpgrade

shouldRollBack(c) ==
  rollBackEnabled(c) /\
    \/ (c.status.synced /\ c.status.atProvider.state = StatusFailed)
    \/ c.status.atProvider.state = StatusPendingInstall
    \/ c.status.atProvider.state = StatusPendingUpgrade

rollBackLimitReached_gt(c) == c.status.failed > Deref(c.spec.rollbackRetriesLimit)

rollBackLimitReached(c) == c.status.failed >= Deref(c.spec.rollbackRetriesLimit)

resourceUpToDate_synced(c) == c.status.synced

(* ResourceUpToDate as Observe reports it *)
resourceUpToDate(c) ==
  c.status.synced /\ ~(shouldRollBack(c) /\ ~rollBackLimitReached(c))

(***************************************************************************)
(* The helm gateway as the engine sees it.  The target cluster's history   *)
(* is helm = [rel]: rel is the last release (nil when there is none).      *)
(* A rollback restores the chart and config of an earlier revision, which  *)
(* is any config a deploy of this model may have stored.                   *)
(***************************************************************************)
(* the versions the repository may hold as its latest when a chart is pulled *)
LatestVersions == {"v2", "v3"}

RepoChartName == "c1"

releaseName == "my-release"

releaseNamespace == "target-ns"

(* what helm's storage returns for values written as vals: JSON numbers, omitempty *)
RECURSIVE jsonRoundTrip(_)
jsonRoundTrip(f) ==
  [x \in DOMAIN f |->
     CASE f[x].k = "int" -> F(f[x].n)
       [] f[x].k = "map" -> M(jsonRoundTrip(f[x].m))
       [] OTHER          -> f[x]]

storedConfig(vals) == IF vals = EmptyMap THEN NilPtr ELSE Ptr(jsonRoundTrip(vals))

newRelease(status, version, chart, vals) ==
  [name |-> releaseName, namespace |-> releaseNamespace,
   info |-> Ptr([status |-> status, description |-> status]),
   version |-> version, chart |-> Ptr(chart), config |-> storedConfig(vals)]

(* a release as GetLastRelease may hand it over: as stored, or with parts missing *)
Views(r) ==
  {r, [r EXCEPT !.info = NilPtr], [r EXCEPT !.chart = NilPtr],
   [r EXCEPT !.chart = Ptr([metadata |-> NilPtr])]}

GetLastReleaseResults(h) ==
  (IF h.rel = NilPtr
   THEN {[rel |-> NilPtr, err |-> ErrReleaseNotFound]}
   ELSE {[rel |-> Ptr(v), err |-> NoErr] : v \in Views(Deref(h.rel))})
  \cup {[rel |-> NilPtr, err |-> errHelm], [rel |-> NilPtr, err |-> NoErr]}

(* PullAndLoadChart: the chart the repository resolves the chart spec to *)
PullAndLoadChartResults(chartSpec) ==
  {[chart |-> NilPtr, err |-> "failed to pull chart"]}
  \cup {[chart |-> Ptr([metadata |-> Ptr([name |-> IF chartSpec.name = "" THEN RepoChartName
                                                   ELSE chartSpec.name,
                                         version |-> v])]),
          err |-> NoErr]
           : v \in IF chartSpec.version \in {"", devel} THEN LatestVersions
                   ELSE {chartSpec.version}}

(* Install: a first revision, deployed, failed or left pending; or no change *)
InstallResults(h, chart, vals) ==
  (IF h.rel = NilPtr
   THEN {[helm |-> [rel |-> Ptr(newRelease(st, 1, chart, vals))],
          rel |-> IF st = StatusDeployed THEN Ptr(newRelease(st, 1, chart, vals)) ELSE NilPtr,
          err |-> IF st = StatusDeployed THEN NoErr ELSE errHelm]
           : st \in {StatusDeployed, StatusFailed, StatusPendingInstall}}
   ELSE {})
  \cup {[helm |-> h, rel |-> NilPtr, err |-> errHelm],
        [helm |-> h, rel |-> NilPtr, err |-> NoErr]}

(* Upgrade: a next revision, deployed, failed or left pending; or no change *)
UpgradeResults(h, chart, vals) ==
  (IF h.rel # NilPtr /\ Deref(h.rel).version < MaxRevision
   THEN {[helm |-> [rel |-> Ptr(newRelease(st, Deref(h.rel).version + 1, chart, vals))],
          rel |-> IF st = StatusDeployed
                  THEN Ptr(newRelease(st, Deref(h.rel).version + 1, chart, vals))
                  ELSE NilPtr,
          err |-> IF st = StatusDeployed THEN NoErr ELSE errHelm]
           : st \in {StatusDeployed, StatusFailed, StatusPendingUpgrade}}
   ELSE {})
  \cup {[helm |-> h, rel |-> NilPtr, err |-> errHelm],
        [helm |-> h, rel |-> NilPtr, err |-> NoErr]}

(* the values earlier revisions of the model's release were deployed with *)
EarlierValues == {[a |-> F(1), c |-> F(2)], [a |-> F(1), b |-> F(1), c |-> F(2)]}

(* Rollback: a next revision restoring an earlier one, deployed or left pending; or an error *)
RollbackResults(h) ==
  (IF h.rel # NilPtr /\ Deref(h.rel).version > 1 /\ Deref(h.rel).version < MaxRevision
   THEN {[helm |-> [rel |-> Ptr(newRelease(st, Deref(h.rel).version + 1,
                                           Deref(Deref(h.rel).chart), vals))],
          err |-> IF st = StatusDeployed THEN NoErr ELSE errHelm]
           : st \in {StatusDeployed, StatusPendingRollback}, vals \in EarlierValues}
   ELSE {})
  \cup {[helm |-> h, err |-> errHelm]}

(* Uninstall: the history is gone; or an error (release: not found when there is none) *)
UninstallResults(h) ==
  IF h.rel = NilPtr
  THEN {[helm |-> h, err |-> ErrReleaseNotFound]}
  ELSE {[helm |-> [rel |-> NilPtr], err |-> NoErr],
        [helm |-> h, err |-> errHelm]}

(***************************************************************************)
(* helmExternal.Observe.  c is the Release, k the control plane, tk the    *)
(* objects of the target cluster, g what GetLastRelease returned.          *)
(***************************************************************************)
NoObservation == [exists |-> FALSE, upToDate |-> FALSE, cd |-> EmptyMap]

Available == "Available"

Unavailable == "Unavailable"

(* Observe on a release found deployed and synced: c3 carries synced and the reset *)
(* counter, d is what connectionDetails returned *)
observeAvailable(c3, reads, d) ==
  IF d.err # NoErr
  THEN [cr |-> c3, out |-> NoObservation, err |-> Wrap(d.err, errCannotGetConnectionDetails),
        reads |-> reads, treads |-> d.reads, path |-> "cderr"]
  ELSE [cr |-> [c3 EXCEPT !.status.condition = Available],
        out |-> [exists |-> TRUE,
                 upToDate |-> resourceUpToDate([c3 EXCEPT !.status.condition = Available]),
                 cd |-> d.cd],
        err |-> NoErr, reads |-> reads, treads |-> d.reads, path |-> "available"]

observeUnavailable_reset(c2, reads) ==
  [cr |-> [c2 EXCEPT !.status.condition = Unavailable, !.status.failed = 0],
   out |-> [exists |-> TRUE,
            upToDate |-> resourceUpToDate([c2 EXCEPT !.status.condition = Unavailable,
                                                     !.status.failed = 0]),
            cd |-> EmptyMap],
   err |-> NoErr, reads |-> reads, treads |-> {}, path |-> "unavailable"]

(* Observe on a release not deployed or not synced: c2 carries synced *)
observeUnavailable(c2, reads) ==
  [cr |-> [c2 EXCEPT !.status.condition = Unavailable],
   out |-> [exists |-> TRUE,
            upToDate |-> resourceUpToDate([c2 EXCEPT !.status.condition = Unavailable]),
            cd |-> EmptyMap],
   err |-> NoErr, reads |-> reads, treads |-> {}, path |-> "unavailable"]

observeVerdict_resetSha(c, tk, rel, u) ==
  IF u.err # NoErr
  THEN [cr |-> c, out |-> NoObservation, err |-> Wrap(u.err, errFailedToCheckIfUpToDate),
        reads |-> u.reads, treads |-> {}, path |-> "drifterr"]
  ELSE IF c.status.atProvider.state = StatusDeployed /\ u.ok
  THEN observeAvailable([c EXCEPT !.status.synced = u.ok, !.status.failed = 0,
                                  !.status.patchesSha = ""], u.reads,
                        connectionDetails(tk, c.spec.connectionDetails, rel.name, rel.namespace))
  ELSE observeUnavailable([c EXCEPT !.status.synced = u.ok], u.reads)

(* Observe from the drift verdict u on *)
observeVerdict(c, tk, rel, u) ==
  IF u.err # NoErr
  THEN [cr |-> c, out |-> NoObservation, err |-> Wrap(u.err, errFailedToCheckIfUpToDate),
        reads |-> u.reads, treads |-> {}, path |-> "drifterr"]
  ELSE IF c.status.atProvider.state = StatusDeployed /\ u.ok
  THEN observeAvailable([c EXCEPT !.status.synced = u.ok, !.status.failed = 0], u.reads,
                        connectionDetails(tk, c.spec.connectionDetails, rel.name, rel.namespace))
  ELSE observeUnavailable([c EXCEPT !.status.synced = u.ok], u.reads)

observeDrift(c, k, tk, rel) ==
  observeVerdict(c, tk, rel, isUpToDate(k, c.spec.forProvider, rel, c.status))

observeRelease_drift(c, k, tk, rel) ==
  observeDrift([c EXCEPT !.status.atProvider = generateObservation(rel)], k, tk, rel)

(* Observe once GetLastRelease returned the release rel *)
observeRelease(c, k, tk, rel) ==
  IF c.deleted
  THEN [cr |-> [c EXCEPT !.status.atProvider = generateObservation(rel)],
        out |-> [exists |-> TRUE, upToDate |-> FALSE, cd |-> EmptyMap], err |-> NoErr,
        reads |-> {}, treads |-> {}, path |-> "deleted"]
  ELSE observeDrift([c EXCEPT !.status.atProvider = generateObservation(rel)], k, tk, rel)

observe_nilNotFound(c, k, tk, g) ==
  IF g.err = ErrReleaseNotFound \/ (g.err = NoErr /\ g.rel = NilPtr)
  THEN [cr |-> c, out |-> NoObservation, err |-> NoErr,
        reads |-> {}, treads |-> {}, path |-> "notfound"]
  ELSE IF g.err # NoErr
  THEN [cr |-> c, out |-> NoObservation, err |-> Wrap(g.err, errFailedToGetLastRelease),
        reads |-> {}, treads |-> {}, path |-> "geterr"]
  ELSE observeRelease(c, k, tk, Deref(g.rel))

observe(c, k, tk, g) ==
  IF g.err = ErrReleaseNotFound
  THEN [cr |-> c, out |-> NoObservation, err |-> NoErr,
        reads |-> {}, treads |-> {}, path |-> "notfound"]
  ELSE IF g.err # NoErr
  THEN [cr |-> c, out |-> NoObservation, err |-> Wrap(g.err, errFailedToGetLastRelease),
        reads |-> {}, treads |-> {}, path |-> "geterr"]
  ELSE IF g.rel = NilPtr
  THEN [cr |-> c, out |-> NoObservation, err |-> errLastReleaseIsNil,
        reads |-> {}, treads |-> {}, path |-> "nilrel"]
  ELSE observeRelease(c, k, tk, Deref(g.rel))

(***************************************************************************)
(* helmExternal.deploy.  e is what the collaborators answer during the     *)
(* call: e.pull the result of PullAndLoadChart, e.updName and e.updVersion *)
(* the errors of the two control-plane updates, e.act the choice among the *)
(* results of the helm action.                                             *)
(***************************************************************************)
keyRepoUsername == "username"

keyRepoPassword == "password"

repoCredsFromSecret(k, secretRef) ==
  IF secretRef.name = ""
  THEN [creds |-> Ptr([username |-> "", password |-> ""]), err |-> NoErr, reads |-> {}]
  ELSE IF secretRef.namespace = ""
  THEN [creds |-> NilPtr, err |-> "namespace must be set in chart pull secret ref", reads |-> {}]
  ELSE LET g == getSecretData(k, secretRef.name)
           user == IF keyRepoUsername \in DOMAIN MapOf(g.d) THEN Deref(g.d)[keyRepoUsername] ELSE ""
           pass == IF keyRepoPassword \in DOMAIN MapOf(g.d) THEN Deref(g.d)[keyRepoPassword] ELSE ""
       IN IF g.err # NoErr
          THEN [creds |-> NilPtr, err |-> Wrap(g.err, "failed to get repo pull secret"),
                reads |-> {secretRef.name}]
          ELSE IF user = ""
          THEN [creds |-> NilPtr, err |-> "username missing in chart pull secret",
                reads |-> {secretRef.name}]
          ELSE IF pass = ""
          THEN [creds |-> NilPtr, err |-> "password missing in chart pull secret",
                reads |-> {secretRef.name}]
          ELSE [creds |-> Ptr([username |-> user, password |-> pass]), err |-> NoErr,
                reads |-> {secretRef.name}]

ActionResults(action, h, chart, vals) ==
  IF action = "Install" THEN InstallResults(h, chart, vals) ELSE UpgradeResults(h, chart, vals)

lateInitName_never(c, chart) == c

lateInitName(c, chart) ==
  IF c.spec.forProvider.chart.name = ""
  THEN [c EXCEPT !.spec.forProvider.chart.name = Deref(chart.metadata).name]
  ELSE c

lateInitVersion_never(c, chart) == c

lateInitVersion(c, chart) ==
  IF c.spec.forProvider.chart.version = ""
  THEN [c EXCEPT !.spec.forProvider.chart.version = Deref(chart.metadata).version]
  ELSE c

(* deploy up to the helm action, given the composed values cv, the credentials *)
(* creds and the patches p: chart pull and late-init of name and version *)
deployWith(c, pull, updName, updVersion, cv, creds, p) ==
  LET c1 == lateInitName(c, Deref(pull.chart))
      c2 == lateInitVersion(c1, Deref(pull.chart))
      stop(cc, err, calls, reads, writes) ==
        [cr |-> cc, err |-> err, calls |-> calls, reads |-> reads, writes |-> writes,
         chart |-> NilPtr, vals |-> EmptyMap, patches |-> <<>>]
  IN IF cv.err # NoErr
     THEN stop(c, Wrap(cv.err, errFailedToComposeValues), <<>>, cv.reads, 0)
     ELSE IF creds.err # NoErr
     THEN stop(c, Wrap(creds.err, errFailedToGetRepoCreds), <<>>, cv.reads \cup creds.reads, 0)
     ELSE IF p.err # NoErr
     THEN stop(c, Wrap(p.err, errFailedToLoadPatches), <<>>,
               cv.reads \cup creds.reads \cup p.reads, 0)
     ELSE IF pull.err # NoErr
     THEN stop(c, pull.err, <<"PullAndLoadChart">>, cv.reads \cup creds.reads \cup p.reads, 0)
     ELSE IF c1 # c /\ updName # NoErr
     THEN stop(c, Wrap(updName, errFailedToSetName), <<"PullAndLoadChart", "kube.Update">>,
               cv.reads \cup creds.reads \cup p.reads, 0)
     ELSE IF c2 # c1 /\ updVersion # NoErr
     THEN stop(c1, Wrap(updVersion, errFailedToSetVersion),
               <<"PullAndLoadChart">> \o (IF c1 # c THEN <<"kube.Update">> ELSE <<>>)
                 \o <<"kube.Update">>,
               cv.reads \cup creds.reads \cup p.reads, IF c1 # c THEN 1 ELSE 0)
     ELSE [cr |-> c2, err |-> NoErr,
           calls |-> <<"PullAndLoadChart">> \o (IF c1 # c THEN <<"kube.Update">> ELSE <<>>)
                       \o (IF c2 # c1 THEN <<"kube.Update">> ELSE <<>>),
           reads |-> cv.reads \cup creds.reads \cup p.reads,
           writes |-> (IF c1 # c THEN 1 ELSE 0) + (IF c2 # c1 THEN 1 ELSE 0),
           chart |-> pull.chart, vals |-> Deref(cv.vals), patches |-> p.patches]

(* deploy up to the helm action *)
deployPrepare(c, k, pull, updName, updVersion) ==
  deployWith(c, pull, updName, updVersion,
             composeValuesFromSpec(k, c.spec.forProvider),
             repoCredsFromSecret(k, c.spec.forProvider.chart.pullSecretRef),
             getFromSpec(k, c.spec.forProvider.patchesFrom))

deployFinish_noSha(pre, action, a) ==
  IF a.err # NoErr
  THEN [cr |-> pre.cr, helm |-> a.helm, err |-> a.err, calls |-> pre.calls \o <<action>>]
  ELSE IF a.rel = NilPtr
  THEN [cr |-> pre.cr, helm |-> a.helm, err |-> errLastReleaseIsNil,
        calls |-> pre.calls \o <<action>>]
  ELSE [cr |-> [pre.cr EXCEPT !.status.atProvider = generateObservation(Deref(a.rel))],
        helm |-> a.helm, err |-> NoErr, calls |-> pre.calls \o <<action>>]

deployFinish_undo(pre, action, a) ==
  IF a.err # NoErr
  THEN [cr |-> pre.cr, helm |-> a.helm, err |-> a.err,
        calls |-> pre.calls \o <<action, IF action = "Install" THEN "Uninstall" ELSE "Rollback">>]
  ELSE IF a.rel = NilPtr
  THEN [cr |-> pre.cr, helm |-> a.helm, err |-> errLastReleaseIsNil,
        calls |-> pre.calls \o <<action>>]
  ELSE [cr |-> [pre.cr EXCEPT !.status.patchesSha = shaOf(pre.patches),
                              !.status.atProvider = generateObservation(Deref(a.rel))],
        helm |-> a.helm, err |-> NoErr, calls |-> pre.calls \o <<action>>]

deployFinish_early(pre, action, a) ==
  IF a.err # NoErr
  THEN [cr |-> pre.cr, helm |-> a.helm, err |-> a.err, calls |-> pre.calls \o <<action>>]
  ELSE IF a.rel = NilPtr
  THEN [cr |-> [pre.cr EXCEPT !.status.patchesSha = shaOf(pre.patches)], helm |-> a.helm,
        err |-> errLastReleaseIsNil, calls |-> pre.calls \o <<action>>]
  ELSE [cr |-> [pre.cr EXCEPT !.status.patchesSha = shaOf(pre.patches),
                              !.status.atProvider = generateObservation(Deref(a.rel))],
        helm |-> a.helm, err |-> NoErr, calls |-> pre.calls \o <<action>>]

(* deploy from the helm action on: a is what the action returned *)
deployFinish(pre, action, a) ==
  IF a.err # NoErr
  THEN [cr |-> pre.cr, helm |-> a.helm, err |-> a.err, calls |-> pre.calls \o <<action>>]
  ELSE IF a.rel = NilPtr
  THEN [cr |-> pre.cr, helm |-> a.helm, err |-> errLastReleaseIsNil,
        calls |-> pre.calls \o <<action>>]
  ELSE [cr |-> [pre.cr EXCEPT !.status.patchesSha = shaOf(pre.patches),
                              !.status.atProvider = generateObservation(Deref(a.rel))],
        helm |-> a.helm, err |-> NoErr, calls |-> pre.calls \o <<action>>]

updatePath_noLimit(c) ==
  IF shouldRollBack(c)
  THEN IF c.status.atProvider.revision = 1 THEN "Uninstall" ELSE "Rollback"
  ELSE "deploy"

updatePath_noUninstall(c) ==
  IF shouldRollBack(c)
  THEN IF ~rollBackLimitReached(c) THEN "Rollback" ELSE "none"
  ELSE "deploy"

updatePath_noRollback(c) ==
  IF shouldRollBack(c) /\ c.status.synced
  THEN IF ~rollBackLimitReached(c)
       THEN IF c.status.atProvider.revision = 1 THEN "Uninstall" ELSE "Rollback"
       ELSE "none"
  ELSE "deploy"

updatePath_pendingRetries(c) ==
  IF shouldRollBack(c)
  THEN IF ~rollBackLimitReached(c) \/ c.status.atProvider.state # StatusFailed
       THEN IF c.status.atProvider.state = StatusFailed /\ c.status.atProvider.revision # 1
            THEN "Rollback" ELSE "Uninstall"
       ELSE "none"
  ELSE "deploy"

(* the branch Update takes *)
updatePath(c) ==
  IF shouldRollBack(c)
  THEN IF ~rollBackLimitReached(c)
       THEN IF c.status.atProvider.revision = 1 THEN "Uninstall" ELSE "Rollback"
       ELSE "none"
  ELSE "deploy"

(***************************************************************************)
(* State.  cr is the Release (spec, status, deletion mark), kube the       *)
(* control-plane objects its sources name, tkube the target cluster        *)
(* (namespace, objects named by connection details), helm the release      *)
(* history, last the record of the engine operation the last step was     *)
(* (NoOp after a step of the user): its name, the branch taken, the        *)
(* gateway and client calls made in order, the returned error and          *)
(* observation, what GetLastRelease returned, the objects read on the      *)
(* control plane (reads) and on the target cluster (treads) and the number *)
(* of spec writes persisted.                                               *)
(* rbCalls counts the Rollback/Uninstall calls made by Update since the    *)
(* last Observe that found the release deployed and synced; limitStable    *)
(* tells that rollbackRetriesLimit was not edited since then; specEdited  *)
(* tells that the user edited the spec since Update last incremented       *)
(* status.failed.                                                          *)
(***************************************************************************)
configMapRef(name, optional) ==
  [secretKeyRef |-> NilPtr,
   configMapKeyRef |-> Ptr([name |-> name, key |-> "", optional |-> optional])]

secretRef(name, optional) ==
  [secretKeyRef |-> Ptr([name |-> name, key |-> "", optional |-> optional]),
   configMapKeyRef |-> NilPtr]

present(key, text) == [get |-> NoErr, data |-> Ptr([x \in {key} |-> text])]

absent == [get |-> errNotFound, data |-> NilPtr]

ValuesTexts == {"", "b: 1"}

Limits == {NilPtr} \cup {Ptr(n) : n \in 0..MaxLimit}

InitKube ==
  [cm |-> present(keyDefaultValuesFrom, "a: 1"),
   setcm |-> present(keyDefaultSet, "2"),
   pcm |-> present(keyDefaultPatchFrom, "patches: [p1]")]

partObject ==
  [get |-> NoErr,
   annotations |-> [x \in {helmReleaseNameAnnotation, helmReleaseNamespaceAnnotation} |->
                      IF x = helmReleaseNameAnnotation THEN releaseName ELSE releaseNamespace],
   fields |-> [x \in {"data.db-password"} |-> "MTIzNDU="]]

InitSpec(values, limit) ==
  [forProvider |->
     [chart |-> [name |-> "c1", version |-> "v1",
                 pullSecretRef |-> [name |-> "", namespace |-> ""]],
      namespace |-> releaseNamespace,
      skipCreateNamespace |-> FALSE,
      patchesFrom |-> <<configMapRef("pcm", FALSE)>>,
      values |-> values,
      valuesFrom |-> <<configMapRef("cm", FALSE)>>,
      set |-> <<[name |-> "c", value |-> "", valueFrom |-> Ptr(secretRef("setcm", FALSE))]>>],
   managementPolicies |-> {},
   connectionDetails |->
     <<[name |-> "db", kind |-> "Secret", apiVersion |-> "v1",
        fieldPath |-> "data.db-password", toConnectionSecretKey |-> "password",
        skipPartOfReleaseCheck |-> FALSE]>>,
   rollbackRetriesLimit |-> limit]

InitStatus ==
  [atProvider |-> ZeroObservation, patchesSha |-> "", failed |-> 0, synced |-> FALSE,
   condition |-> ""]

NoOp ==
  [op |-> "none", path |-> "", calls |-> <<>>, err |-> NoErr, out |-> NoObservation,
   glr |-> "", reads |-> {}, treads |-> {}, writes |-> 0]

(* what GetLastRelease returned: not found, another error, a nil release, a release *)
glrKind(g) ==
  CASE g.err = ErrReleaseNotFound -> "notfound"
    [] g.err # NoErr              -> "error"
    [] g.rel = NilPtr             -> "nil"
    [] OTHER                      -> "release"

Init ==
  /\ \E values \in ValuesTexts, limit \in Limits :
       cr = [spec |-> InitSpec(values, limit), status |-> InitStatus, deleted |-> FALSE]
  /\ kube = InitKube
  /\ tkube = [ns |-> FALSE, nsLabels |-> EmptyMap, objs |-> [db |-> partObject]]
  /\ helm = [rel |-> NilPtr]
  /\ last = NoOp
  /\ rbCalls = 0
  /\ limitStable = TRUE
  /\ specEdited = FALSE

(***************************************************************************)
(* Engine operations.  A reconcile of the managed reconciler calls Observe *)
(* first and, when Observe returned no error, at most one of Create (the   *)
(* release does not exist), Update (it exists) and Delete (it exists and   *)
(* the Release is marked for deletion) on the object Observe left.         *)
(* Update is not restricted to observations that report drift.             *)
(***************************************************************************)
Observed == last.op = "Observe" /\ last.err = NoErr

MayCreate == Observed /\ ~last.out.exists /\ ~cr.deleted

MayUpdate == Observed /\ last.out.exists /\ ~cr.deleted

MayDelete == Observed /\ last.out.exists /\ cr.deleted

(* the objects of the target cluster as a GET returns them: as they are, or an error *)
TargetViews(objs) == {objs, [n \in DOMAIN objs |-> [objs[n] EXCEPT !.get = errForbidden]]}

ObserveResult(g, r) ==
  /\ cr' = r.cr
  /\ last' = [op |-> "Observe", path |-> r.path, calls |-> <<"GetLastRelease">>,
              err |-> r.err, out |-> r.out, glr |-> glrKind(g), reads |-> r.reads,
              treads |-> r.treads, writes |-> 0]
  /\ rbCalls' = IF r.path \in {"available", "cderr"} THEN 0 ELSE rbCalls
  /\ limitStable' = IF r.path \in {"available", "cderr"} THEN TRUE ELSE limitStable
  /\ UNCHANGED <<kube, tkube, helm, specEdited>>

(* The target cluster is read only by connectionDetails, on the path where the
   release is up to date and deployed: its failing GET is an input there. *)
ObserveTarget(g, r) ==
  \/ ObserveResult(g, r)
  \/ /\ r.path = "available"
     /\ \E tk \in TargetViews(tkube.objs) \ {tkube.objs} :
          ObserveResult(g, observe(cr, kube, tk, g))

Observe ==
  \E g \in GetLastReleaseResults(helm) :
    ObserveTarget(g, observe(cr, kube, tkube.objs, g))

(* localKube.Update of the Release: its error, when the update is attempted at all *)
UpdateResults(attempted) == IF attempted THEN {NoErr, errKubeUpdate} ELSE {NoErr}

(* deploy(action) run on c, with the returned error wrapped as wrapMsg; k2 is the *)
(* control plane as the run leaves it behind: deploy itself writes only the Release *)
DeployStep(op, c, tk, action, wrapMsg, preCalls, k2) ==
  \E pull \in PullAndLoadChartResults(c.spec.forProvider.chart),
     updName \in UpdateResults(c.spec.forProvider.chart.name = ""),
     updVersion \in UpdateResults(c.spec.forProvider.chart.version = "") :
    LET pre == deployPrepare(c, kube, pull, updName, updVersion)
    IN IF pre.err # NoErr
       THEN /\ cr' = pre.cr
            /\ last' = [op |-> op, path |-> "deploy", calls |-> preCalls \o pre.calls,
                        err |-> Wrap(pre.err, wrapMsg), out |-> NoObservation,
                        glr |-> "", reads |-> pre.reads, treads |-> {}, writes |-> pre.writes]
            /\ tkube' = tk
            /\ kube' = k2
            /\ UNCHANGED <<helm, rbCalls, limitStable, specEdited>>
       ELSE \E a \in ActionResults(action, helm, Deref(pre.chart), pre.vals) :
              LET fin == deployFinish(pre, action, a)
              IN /\ cr' = fin.cr
                 /\ helm' = fin.helm
                 /\ last' = [op |-> op, path |-> "deploy", calls |-> preCalls \o fin.calls,
                             err |-> Wrap(fin.err, wrapMsg), out |-> NoObservation,
                             glr |-> "", reads |-> pre.reads, treads |-> {}, writes |-> pre.writes]
                 /\ tkube' = tk
                 /\ kube' = k2
                 /\ UNCHANGED <<rbCalls, limitStable, specEdited>>

(* deploy(action) while nobody else writes to the control plane *)
Deploy(op, c, tk, action, wrapMsg, preCalls) ==
  DeployStep(op, c, tk, action, wrapMsg, preCalls, kube)

helmNamespaceLabel == "app.kubernetes.io/managed-by"

helmProviderName == "provider-helm"

createNamespaceResults_unlabelled(tk) ==
  IF tk.ns THEN {[tkube |-> tk, err |-> errAlreadyExists]}
  ELSE {[tkube |-> [tk EXCEPT !.ns = TRUE], err |-> NoErr], [tkube |-> tk, err |-> errForbidden]}

(* createNamespace: kube.Create of the target namespace, labelled as managed by *)
(* the provider; a namespace that exists is left as it is *)
createNamespaceResults(tk) ==
  IF tk.ns THEN {[tkube |-> tk, err |-> errAlreadyExists]}
  ELSE {[tkube |-> [tk EXCEPT !.ns = TRUE,
                              !.nsLabels = [x \in {helmNamespaceLabel} |-> helmProviderName]],
         err |-> NoErr],
        [tkube |-> tk, err |-> errForbidden]}

Create ==
  IF ~cr.spec.forProvider.skipCreateNamespace
  THEN \E n \in createNamespaceResults(tkube) :
         IF n.err # NoErr /\ n.err # errAlreadyExists
         THEN /\ last' = [NoOp EXCEPT !.op = "Create", !.path = "namespace",
                                      !.calls = <<"kube.Create">>,
                                      !.err = Wrap(n.err, errFailedToCreateNamespace)]
              /\ UNCHANGED <<cr, kube, tkube, helm, rbCalls, limitStable, specEdited>>
         ELSE Deploy("Create", cr, n.tkube, "Install", errFailedToInstall, <<"kube.Create">>)
  ELSE Deploy("Create", cr, tkube, "Install", errFailedToInstall, <<>>)

incFailed_none(c) == c

incFailed_first(c) == [c EXCEPT !.status.failed = 1]

incFailed(c) == [c EXCEPT !.status.failed = @ + 1]

rollbackRetry_onSuccess(c, r) ==
  [cr |-> IF r.err = NoErr THEN incFailed(c) ELSE c, err |-> r.err]

(* the retry branch of Update: the counter is incremented, then the helm call *)
(* is made and its error r.err returned as it is *)
rollbackRetry(c, r) == [cr |-> incFailed(c), err |-> r.err]

Update ==
  LET path == updatePath(cr)
  IN CASE path = "none" ->
            /\ last' = [NoOp EXCEPT !.op = "Update", !.path = "none"]
            /\ UNCHANGED <<cr, kube, tkube, helm, rbCalls, limitStable, specEdited>>
       [] path = "Uninstall" ->
            \E r \in UninstallResults(helm) :
              /\ cr' = rollbackRetry(cr, r).cr
              /\ helm' = r.helm
              /\ last' = [NoOp EXCEPT !.op = "Update", !.path = "Uninstall",
                                      !.calls = <<"Uninstall">>,
                                      !.err = rollbackRetry(cr, r).err]
              /\ rbCalls' = rbCalls + 1
              /\ specEdited' = FALSE
              /\ UNCHANGED <<kube, tkube, limitStable>>
       [] path = "Rollback" ->
            \E r \in RollbackResults(helm) :
              /\ cr' = rollbackRetry(cr, r).cr
              /\ helm' = r.helm
              /\ last' = [NoOp EXCEPT !.op = "Update", !.path = "Rollback",
                                      !.calls = <<"Rollback">>,
                                      !.err = rollbackRetry(cr, r).err]
              /\ rbCalls' = rbCalls + 1
              /\ specEdited' = FALSE
              /\ UNCHANGED <<kube, tkube, limitStable>>
       [] OTHER -> Deploy("Update", cr, tkube, "Upgrade", errFailedToUpgrade, <<>>)

Delete_unwrapped ==
  \E r \in UninstallResults(helm) :
    /\ helm' = r.helm
    /\ last' = [NoOp EXCEPT !.op = "Delete", !.path = "Uninstall", !.calls = <<"Uninstall">>,
                            !.err = r.err]
    /\ UNCHANGED <<cr, kube, tkube, rbCalls, limitStable, specEdited>>

Delete ==
  \E r \in UninstallResults(helm) :
    /\ helm' = r.helm
    /\ last' = [NoOp EXCEPT !.op = "Delete", !.path = "Uninstall", !.calls = <<"Uninstall">>,
                            !.err = Wrap(r.err, errFailedToUninstall)]
    /\ UNCHANGED <<cr, kube, tkube, rbCalls, limitStable, specEdited>>

(***************************************************************************)
(* The user: edits of the spec and of the objects it names, made while the *)
(* Release is not marked for deletion, and the deletion mark.              *)
(***************************************************************************)
EditValues ==
  /\ ~cr.deleted
  /\ \E v \in ValuesTexts \ {cr.spec.forProvider.values} :
       cr' = [cr EXCEPT !.spec.forProvider.values = v]
  /\ specEdited' = TRUE
  /\ last' = NoOp
  /\ UNCHANGED <<kube, tkube, helm, rbCalls, limitStable>>

EditLimit ==
  /\ ~cr.deleted
  /\ \E l \in Limits \ {cr.spec.rollbackRetriesLimit} :
       cr' = [cr EXCEPT !.spec.rollbackRetriesLimit = l]
  /\ limitStable' = FALSE
  /\ specEdited' = TRUE
  /\ last' = NoOp
  /\ UNCHANGED <<kube, tkube, helm, rbCalls>>

EditSource ==
  /\ ~cr.deleted
  /\ \E o \in {absent, InitKube.cm} \ {kube.cm} : kube' = [kube EXCEPT !.cm = o]
  /\ last' = NoOp
  /\ UNCHANGED <<cr, tkube, helm, rbCalls, limitStable, specEdited>>

MarkDeleted ==
  /\ ~cr.deleted
  /\ cr' = [cr EXCEPT !.deleted = TRUE]
  /\ last' = NoOp
  /\ UNCHANGED <<kube, tkube, helm, rbCalls, limitStable, specEdited>>

Next ==
  \/ Observe
  \/ (MayCreate /\ Create)
  \/ (MayUpdate /\ Update)
  \/ (MayDelete /\ Delete)
  \/ EditValues
  \/ EditLimit
  \/ EditSource
  \/ MarkDeleted

Spec == Init /\ [][Next]_vars

(***************************************************************************)
(* The engine while the user edits the patch documents patchesFrom names.  *)
(***************************************************************************)
PatchTexts == {"", "patches: [p1]", "patches: [p2]"}

InitPatches ==
  /\ \E limit \in {NilPtr, Ptr(1)} :
       cr = [spec |-> InitSpec("", limit), status |-> InitStatus, deleted |-> FALSE]
  /\ kube = InitKube
  /\ tkube = [ns |-> FALSE, nsLabels |-> EmptyMap, objs |-> [db |-> partObject]]
  /\ helm = [rel |-> NilPtr]
  /\ last = NoOp
  /\ rbCalls = 0
  /\ limitStable = TRUE
  /\ specEdited = FALSE

EditPatches ==
  /\ ~cr.deleted
  /\ \E t \in PatchTexts \ {Deref(kube.pcm.data)[keyDefaultPatchFrom]} :
       kube' = [kube EXCEPT !.pcm = present(keyDefaultPatchFrom, t)]
  /\ last' = NoOp
  /\ UNCHANGED <<cr, tkube, helm, rbCalls, limitStable, specEdited>>

NextPatches ==
  \/ Observe
  \/ (MayCreate /\ Create)
  \/ (MayUpdate /\ Update)
  \/ (MayDelete /\ Delete)
  \/ EditPatches
  \/ MarkDeleted

SpecPatches == InitPatches /\ [][NextPatches]_vars

(***************************************************************************)
(* The engine on Releases that leave the chart name or version to the      *)
(* repository, with or without namespace creation, on a target cluster     *)
(* where the namespace exists already or not.                              *)
(***************************************************************************)
InitDeploy ==
  /\ \E name \in {"", "c1"}, version \in {"", "v1", devel}, skip \in BOOLEAN,
        limit \in {NilPtr, Ptr(1)} :
       cr = [spec |-> [InitSpec("", limit) EXCEPT !.forProvider.chart.name = name,
                                                    !.forProvider.chart.version = version,
                                                    !.forProvider.skipCreateNamespace = skip],
             status |-> InitStatus, deleted |-> FALSE]
  /\ kube = InitKube
  /\ \E ns \in BOOLEAN : tkube = [ns |-> ns, nsLabels |-> EmptyMap, objs |-> [db |-> partObject]]
  /\ helm = [rel |-> NilPtr]
  /\ last = NoOp
  /\ rbCalls = 0
  /\ limitStable = TRUE
  /\ specEdited = FALSE

NextDeploy ==
  \/ Observe
  \/ (MayCreate /\ Create)
  \/ (MayUpdate /\ Update)
  \/ (MayDelete /\ Delete)
  \/ MarkDeleted

SpecDeploy == InitDeploy /\ [][NextDeploy]_vars

(***************************************************************************)
(* Delete as the ExternalClient interface offers it: callable on a Release *)
(* marked for deletion whatever the last observation was.  Within one      *)
(* reconcile the managed reconciler calls it only after an Observe that    *)
(* found the release; a caller that calls it again, or a release removed   *)
(* between that Observe and the call, makes it run without a release.      *)
(***************************************************************************)
NextDelete ==
  \/ Observe
  \/ (MayCreate /\ Create)
  \/ (cr.deleted /\ Delete)
  \/ MarkDeleted

SpecDelete == InitDeploy /\ [][NextDelete]_vars

(***************************************************************************)
(* The engine as the managed reconciler drives it while the user leaves    *)
(* the spec and the sources alone: Update is called only after an Observe  *)
(* that reported the release as existing and not up to date.               *)
(***************************************************************************)
NextSteady ==
  \/ Observe
  \/ (MayCreate /\ Create)
  \/ (MayUpdate /\ ~last.out.upToDate /\ Update)
  \/ (MayDelete /\ Delete)
  \/ MarkDeleted

SpecSteady == Init /\ [][NextSteady]_vars

(***************************************************************************)
(* The data-source resolver on its own.  cr holds the arguments of         *)
(* getDataValueFromSource (the source and the default key), kube.src the   *)
(* object the source names; ResolveSource applies the function and records *)
(* in last what it returned.                                               *)
(***************************************************************************)
keyRef(key, optional) == [name |-> "src", key |-> key, optional |-> optional]

Sources ==
  {[secretKeyRef |-> NilPtr, configMapKeyRef |-> NilPtr]}
  \cup {[secretKeyRef |-> Ptr(keyRef(k, o)), configMapKeyRef |-> NilPtr]
          : k \in {"", "k"}, o \in BOOLEAN}
  \cup {[secretKeyRef |-> NilPtr, configMapKeyRef |-> Ptr(keyRef(k, o))]
          : k \in {"", "k"}, o \in BOOLEAN}
  \cup {[secretKeyRef |-> Ptr(keyRef("k", o)), configMapKeyRef |-> Ptr(keyRef("", o))]
          : o \in BOOLEAN}

(* the object as the GET finds it: not found, refused, without data, with data *)
SourceObjects ==
  {absent, [get |-> errForbidden, data |-> NilPtr], [get |-> NoErr, data |-> NilPtr],
   [get |-> NoErr, data |-> Ptr(EmptyMap)],
   present("k", "v1"), present("k", ""), present(keyDefaultValuesFrom, "a: 1"),
   [get |-> NoErr, data |-> Ptr([k |-> "v1", value |-> "2"])]}

InitSource ==
  /\ \E source \in Sources, defaultKey \in {keyDefaultValuesFrom, keyDefaultSet} :
       cr = [source |-> source, defaultKey |-> defaultKey]
  /\ \E o \in SourceObjects : kube = [src |-> o]
  /\ tkube = [ns |-> TRUE, nsLabels |-> EmptyMap, objs |-> EmptyMap]
  /\ helm = [rel |-> NilPtr]
  /\ last = [op |-> "none", val |-> "", err |-> NoErr, reads |-> {}]
  /\ rbCalls = 0
  /\ limitStable = TRUE
  /\ specEdited = FALSE

ResolveSource ==
  /\ last.op = "none"
  /\ last' = [op |-> "getDataValueFromSource"]
                @@ getDataValueFromSource(kube, cr.source, cr.defaultKey)
  /\ UNCHANGED <<cr, kube, tkube, helm, rbCalls, limitStable, specEdited>>

SpecSource == InitSource /\ [][ResolveSource]_vars

(***************************************************************************)
(* The connection-detail extractor on its own.  cr.spec.connectionDetails  *)
(* holds the entries, tkube.objs the objects they name: db, with any       *)
(* annotations, and cfg, which is part of the release.                     *)
(***************************************************************************)
DetailAnnotations ==
  {[x \in D |-> IF x = helmReleaseNameAnnotation THEN n ELSE m] :
     D \in SUBSET {helmReleaseNameAnnotation, helmReleaseNamespaceAnnotation},
     n \in {releaseName, "other"}, m \in {releaseNamespace, "other-ns"}}

detailEntries(skip) ==
  LET db == [InitSpec("", NilPtr).connectionDetails[1] EXCEPT !.skipPartOfReleaseCheck = skip]
      cfg == [name |-> "cfg", kind |-> "ConfigMap", apiVersion |-> "v1",
              fieldPath |-> "data.host", toConnectionSecretKey |-> "host",
              skipPartOfReleaseCheck |-> FALSE]
  IN {<<db>>, <<cfg, db>>, <<db, cfg>>}

InitDetails ==
  /\ \E skip \in BOOLEAN : \E cds \in detailEntries(skip) :
       cr = [spec |-> [InitSpec("", NilPtr) EXCEPT !.connectionDetails = cds],
             status |-> InitStatus, deleted |-> FALSE]
  /\ kube = InitKube
  /\ \E a \in DetailAnnotations, g \in {NoErr, errForbidden} :
       tkube = [ns |-> TRUE, nsLabels |-> EmptyMap,
                objs |-> [db |-> [partObject EXCEPT !.annotations = a, !.get = g],
                          cfg |-> [partObject EXCEPT !.fields = [x \in {"data.host"} |-> "h1"]]]]
  /\ helm = [rel |-> NilPtr]
  /\ last = [op |-> "none", cd |-> EmptyMap, err |-> NoErr, reads |-> {}]
  /\ rbCalls = 0
  /\ limitStable = TRUE
  /\ specEdited = FALSE

ExtractDetails ==
  /\ last.op = "none"
  /\ last' = [op |-> "connectionDetails"]
                @@ connectionDetails(tkube.objs, cr.spec.connectionDetails,
                                     releaseName, releaseNamespace)
  /\ UNCHANGED <<cr, kube, tkube, helm, rbCalls, limitStable, specEdited>>

SpecDetails == InitDetails /\ [][ExtractDetails]_vars

(***************************************************************************)
(* The rollback predicates on their own, on a Release with any recorded    *)
(* state, sync verdict, count of failures and limit.  rollBackLimitReached *)
(* reads through the limit pointer: it is applied where the limit is set.  *)
(***************************************************************************)
ReleaseStates ==
  {"", "unknown", StatusDeployed, "uninstalled", "superseded", StatusFailed, "uninstalling",
   StatusPendingInstall, StatusPendingUpgrade, StatusPendingRollback}

InitRollback ==
  /\ \E limit \in Limits, state \in ReleaseStates, synced \in BOOLEAN,
        failed \in 0..(MaxLimit + 1) :
       cr = [spec |-> InitSpec("", limit),
             status |-> [InitStatus EXCEPT !.atProvider.state = state, !.synced = synced,
                                           !.failed = failed],
             deleted |-> FALSE]
  /\ kube = InitKube
  /\ tkube = [ns |-> TRUE, nsLabels |-> EmptyMap, objs |-> EmptyMap]
  /\ helm = [rel |-> NilPtr]
  /\ last = [op |-> "none", result |-> FALSE]
  /\ rbCalls = 0
  /\ limitStable = TRUE
  /\ specEdited = FALSE

CheckShouldRollBack ==
  /\ last.op = "none"
  /\ last' = [op |-> "shouldRollBack", result |-> shouldRollBack(cr)]
  /\ UNCHANGED <<cr, kube, tkube, helm, rbCalls, limitStable, specEdited>>

CheckLimitReached ==
  /\ last.op = "none"
  /\ rollBackEnabled(cr)
  /\ last' = [op |-> "rollBackLimitReached", result |-> rollBackLimitReached(cr)]
  /\ UNCHANGED <<cr, kube, tkube, helm, rbCalls, limitStable, specEdited>>

NextRollback == CheckShouldRollBack \/ CheckLimitReached

SpecRollback == InitRollback /\ [][NextRollback]_vars

(***************************************************************************)
(* The patch digest on its own.  kube.pcm and kube.pcm2 are the patch      *)
(* documents, cr.spec.forProvider.patchesFrom the list that names them,    *)
(* cr.status.patchesSha the recorded digest.                               *)
(***************************************************************************)
PatchDocs ==
  {"", "patches: [p1]", "patches:\n- p1", "patches: [p2]", "patches: [p1, p2]", "patches: []",
   "patches"}

PatchLists ==
  {<<>>, <<configMapRef("pcm", FALSE)>>, <<configMapRef("pcm", TRUE)>>,
   <<configMapRef("pcm2", FALSE)>>,
   <<configMapRef("pcm", FALSE), configMapRef("pcm2", FALSE)>>,
   <<configMapRef("pcm2", FALSE), configMapRef("pcm", FALSE)>>}

InitSha ==
  /\ \E from \in PatchLists,
        sha \in {"", shaOf(<<"p1">>), ToUpper(shaOf(<<"p1">>)), shaOf(<<"p2">>),
                 shaOf(<<"p1", "p2">>)} :
       cr = [spec |-> [InitSpec("", NilPtr) EXCEPT !.forProvider.patchesFrom = from],
             status |-> [InitStatus EXCEPT !.patchesSha = sha], deleted |-> FALSE]
  /\ \E o \in {absent} \cup {present(keyDefaultPatchFrom, t) : t \in PatchDocs},
        t2 \in {"patches: [p1]", "patches:\n- p1", "patches: [p2]"} :
       kube = [InitKube EXCEPT !.pcm = o] @@ [pcm2 |-> present(keyDefaultPatchFrom, t2)]
  /\ tkube = [ns |-> TRUE, nsLabels |-> EmptyMap, objs |-> EmptyMap]
  /\ helm = [rel |-> NilPtr]
  /\ last = [op |-> "none"]
  /\ rbCalls = 0
  /\ limitStable = TRUE
  /\ specEdited = FALSE

CheckHasUpdates ==
  /\ last.op = "none"
  /\ last' = [op |-> "hasUpdates"]
                @@ hasUpdates(kube, cr.spec.forProvider.patchesFrom, cr.status)
  /\ UNCHANGED <<cr, kube, tkube, helm, rbCalls, limitStable, specEdited>>

(* shaOf applied to the patches of each list of sources that loads *)
CheckShaOf ==
  /\ last.op = "none"
  /\ last' = [op |-> "shaOf",
              of |-> [l \in {x \in PatchLists : getFromSpec(kube, x).err = NoErr} |->
                        [patches |-> getFromSpec(kube, l).patches,
                         sum |-> shaOf(getFromSpec(kube, l).patches)]]]
  /\ UNCHANGED <<cr, kube, tkube, helm, rbCalls, limitStable, specEdited>>

NextSha == CheckHasUpdates \/ CheckShaOf

SpecSha == InitSha /\ [][NextSha]_vars

(***************************************************************************)
(* The value composer on its own.  cr.spec.forProvider holds the           *)
(* ValuesSpec (valuesFrom over the ConfigMaps cm and cm2, inline values,   *)
(* set entries), kube the two ConfigMaps; Compose applies                  *)
(* composeValuesFromSpec and records in last what it returned.             *)
(***************************************************************************)
setEntry(name, value) == [name |-> name, value |-> value, valueFrom |-> NilPtr]

ComposeTexts == {"", "a: 1", "b: 1", "a: {b: 1}", "a: {c: 2}"}

InitCompose ==
  /\ \E vf \in {<<>>, <<configMapRef("cm", FALSE)>>,
                 <<configMapRef("cm", FALSE), configMapRef("cm2", FALSE)>>,
                 <<configMapRef("cm2", FALSE), configMapRef("cm", FALSE)>>},
        values \in {"", "a: 2", "b: 1", "a: {c: 2}"},
        set \in {<<>>, <<setEntry("a", "1")>>, <<setEntry("a", "1"), setEntry("a", "2")>>,
                 <<setEntry("c", "2")>>, <<setEntry("b", "x"), setEntry("c", "2")>>} :
       cr = [spec |-> [InitSpec(values, NilPtr) EXCEPT !.forProvider.valuesFrom = vf,
                                                       !.forProvider.set = set],
             status |-> InitStatus, deleted |-> FALSE]
  /\ \E t1 \in ComposeTexts, t2 \in ComposeTexts :
       kube = [cm |-> present(keyDefaultValuesFrom, t1), cm2 |-> present(keyDefaultValuesFrom, t2)]
  /\ tkube = [ns |-> TRUE, nsLabels |-> EmptyMap, objs |-> EmptyMap]
  /\ helm = [rel |-> NilPtr]
  /\ last = [op |-> "none", vals |-> NilPtr, err |-> NoErr, reads |-> {}]
  /\ rbCalls = 0
  /\ limitStable = TRUE
  /\ specEdited = FALSE

Compose ==
  /\ last.op = "none"
  /\ last' = [op |-> "composeValuesFromSpec"] @@ composeValuesFromSpec(kube, cr.spec.forProvider)
  /\ UNCHANGED <<cr, kube, tkube, helm, rbCalls, limitStable, specEdited>>

SpecCompose == InitCompose /\ [][Compose]_vars

(***************************************************************************)
(* The drift check on its own.  The inputs of isUpToDate are drawn from    *)
(* bounded sets: cr holds the Release R (spec and status), kube the        *)
(* sources R names, helm.rel the observed release H.  CheckUpToDate        *)
(* applies isUpToDate to them; each Mutate action changes one input of a   *)
(* state found up to date and applies isUpToDate again.  last records the  *)
(* verdict (out.upToDate, err) and, for a mutation, the input changed.     *)
(***************************************************************************)
DriftNames == {"c1", "c2"}

DriftVersions == {"v1", "v2", devel}

DriftValues == {"", "a: 2", "a: {c: 2}"}

DriftSourceTexts == {"", "a: 1", "a: {b: 1}"}

DriftSets == {<<>>, <<setEntry("a", "1")>>, <<setEntry("a", "1"), setEntry("a", "2")>>}

DriftSetValues == {"1", "2"}

DriftPatchTexts == {"patches: [p1]", "patches:\n- p1", "patches: [p2]"}

DriftShas == {"", shaOf(<<"p1">>), ToUpper(shaOf(<<"p1">>)), shaOf(<<"p2">>)}

DriftInfos ==
  {NilPtr} \cup {Ptr([status |-> st, description |-> st])
                   : st \in {StatusDeployed, StatusFailed, StatusPendingUpgrade}}

DriftConfigs ==
  {NilPtr, Ptr([a |-> F(1)]), Ptr([a |-> F(2)]), Ptr([a |-> M([c |-> F(2)])]),
   Ptr([a |-> M([b |-> F(1), c |-> F(2)])])}

DriftSpec(name, version, values, set) ==
  [InitSpec(values, NilPtr) EXCEPT !.forProvider.chart.name = name,
                                   !.forProvider.chart.version = version,
                                   !.forProvider.set = set]

DriftRelease(info, config) ==
  [name |-> releaseName, namespace |-> releaseNamespace, info |-> info, version |-> 1,
   chart |-> Ptr([metadata |-> Ptr([name |-> "c1", version |-> "v1"])]), config |-> config]

DriftObservedVersions == {"v1", "v3"}

(* the observed release h with ov as the version of its chart metadata *)
observedAt(h, ov) ==
  [h EXCEPT !.chart = Ptr([metadata |-> Ptr([name |-> Deref(Deref(h.chart).metadata).name,
                                              version |-> ov])])]

(* the record of isUpToDate applied to the current inputs *)
verdict(op, what, c, k, h) ==
  LET u == isUpToDate(k, c.spec.forProvider, Deref(h.rel), c.status)
  IN [NoOp EXCEPT !.op = op, !.path = what, !.calls = <<"isUpToDate">>,
                  !.out = [exists |-> TRUE, upToDate |-> u.ok, cd |-> EmptyMap],
                  !.err = u.err, !.reads = u.reads]

InitDrift ==
  /\ \E name \in DriftNames, version \in DriftVersions, values \in DriftValues,
        set \in DriftSets, sha \in {"", shaOf(<<"p1">>)} :
       cr = [spec |-> DriftSpec(name, version, values, set),
             status |-> [InitStatus EXCEPT !.patchesSha = sha], deleted |-> FALSE]
  /\ \E t \in DriftSourceTexts : kube = [InitKube EXCEPT !.cm = present(keyDefaultValuesFrom, t)]
  /\ \E info \in DriftInfos, config \in DriftConfigs, ov \in DriftObservedVersions :
       helm = [rel |-> Ptr(observedAt(DriftRelease(info, config), ov))]
  /\ tkube = [ns |-> TRUE, nsLabels |-> EmptyMap, objs |-> [db |-> partObject]]
  /\ last = NoOp
  /\ rbCalls = 0
  /\ limitStable = TRUE
  /\ specEdited = FALSE

CheckUpToDate ==
  /\ last.op = "none"
  /\ last' = verdict("isUpToDate", "", cr, kube, helm)
  /\ UNCHANGED <<cr, kube, tkube, helm, rbCalls, limitStable, specEdited>>

DriftPolicies ==
  {{}, {"*"}, {"Observe"}, {"Observe", "Create", "Delete"},
   {"Observe", "Create", "Delete", "Update"}}

(* the record of the verdict u of the drift check on a whole ReleaseSpec *)
verdictOfSpec(u) ==
  [NoOp EXCEPT !.op = "isUpToDateOfSpec", !.calls = <<"isUpToDateOfSpec">>,
               !.out = [exists |-> TRUE, upToDate |-> u.ok, cd |-> EmptyMap],
               !.err = u.err, !.reads = u.reads]

CheckUpToDateOfSpec ==
  /\ last.op = "none"
  /\ \E p \in DriftPolicies :
       /\ cr' = [cr EXCEPT !.spec.managementPolicies = p]
       /\ last' = verdictOfSpec(isUpToDateOfSpec(kube, [cr.spec EXCEPT !.managementPolicies = p],
                                                 Deref(helm.rel), cr.status))
  /\ UNCHANGED <<kube, tkube, helm, rbCalls, limitStable, specEdited>>

(* a state isUpToDate found up to date, from which one input is mutated *)
FoundUpToDate == last.op = "isUpToDate" /\ last.out.upToDate /\ last.err = NoErr

MutateTo(what, c, k) ==
  /\ FoundUpToDate
  /\ cr' = c
  /\ kube' = k
  /\ last' = verdict("mutate", what, c, k, helm)
  /\ UNCHANGED <<tkube, helm, rbCalls, limitStable, specEdited>>

MutateChartName ==
  \E n \in DriftNames \ {cr.spec.forProvider.chart.name} :
    MutateTo("chart.name", [cr EXCEPT !.spec.forProvider.chart.name = n], kube)

MutateChartVersion ==
  \E v \in DriftVersions \ {cr.spec.forProvider.chart.version} :
    MutateTo("chart.version", [cr EXCEPT !.spec.forProvider.chart.version = v], kube)

MutateValues ==
  \E v \in DriftValues \ {cr.spec.forProvider.values} :
    MutateTo("values", [cr EXCEPT !.spec.forProvider.values = v], kube)

MutateValuesFrom ==
  \E t \in DriftSourceTexts \ {Deref(kube.cm.data)[keyDefaultValuesFrom]} :
    MutateTo("valuesFrom", cr, [kube EXCEPT !.cm = present(keyDefaultValuesFrom, t)])

MutateSet ==
  \E i \in 1..Len(cr.spec.forProvider.set) :
    \E v \in DriftSetValues \ {cr.spec.forProvider.set[i].value} :
      MutateTo("set", [cr EXCEPT !.spec.forProvider.set[i].value = v], kube)

MutatePatches ==
  \E t \in DriftPatchTexts \ {Deref(kube.pcm.data)[keyDefaultPatchFrom]} :
    MutateTo("patches", cr, [kube EXCEPT !.pcm = present(keyDefaultPatchFrom, t)])

MutatePatchesSha ==
  \E sha \in DriftShas \ {cr.status.patchesSha} :
    MutateTo("patchesSha", [cr EXCEPT !.status.patchesSha = sha], kube)

NextDrift ==
  \/ CheckUpToDate
  \/ CheckUpToDateOfSpec
  \/ MutateChartName
  \/ MutateChartVersion
  \/ MutateValues
  \/ MutateValuesFrom
  \/ MutateSet
  \/ MutatePatches
  \/ MutatePatchesSha

SpecDrift == InitDrift /\ [][NextDrift]_vars

(***************************************************************************)
(* The drift check on observed releases with parts missing: any status,    *)
(* pending ones included, no info, no chart or no chart metadata, over a   *)
(* values source that is there or not.                                     *)
(***************************************************************************)
InitParts ==
  /\ \E name \in DriftNames, version \in {"v1", "v2"} :
       cr = [spec |-> DriftSpec(name, version, "", <<>>),
             status |-> [InitStatus EXCEPT !.patchesSha = shaOf(<<"p1">>)], deleted |-> FALSE]
  /\ \E o \in {absent, InitKube.cm} : kube = [InitKube EXCEPT !.cm = o]
  /\ \E info \in {NilPtr} \cup {Ptr([status |-> st, description |-> st])
                                    : st \in ReleaseStates \ {""}},
        config \in {NilPtr, Ptr([a |-> F(1)])},
        chart \in {NilPtr, Ptr([metadata |-> NilPtr]),
                   Ptr([metadata |-> Ptr([name |-> "c1", version |-> "v1"])])} :
       helm = [rel |-> Ptr([DriftRelease(info, config) EXCEPT !.chart = chart])]
  /\ tkube = [ns |-> TRUE, nsLabels |-> EmptyMap, objs |-> [db |-> partObject]]
  /\ last = NoOp
  /\ rbCalls = 0
  /\ limitStable = TRUE
  /\ specEdited = FALSE

SpecParts == InitParts /\ [][CheckUpToDate]_vars

(***************************************************************************)
(* Properties of the rollback-retry policy.                                *)
(***************************************************************************)
(* C1: with rollbackRetriesLimit set to L >= 0 and not edited, Update      *)
(* invokes Rollback or Uninstall at most L times between two Observes that *)
(* find the release deployed and synced.                                   *)
C1_RollbackCap ==
  (cr.spec.rollbackRetriesLimit # NilPtr /\ limitStable) =>
    rbCalls <= Deref(cr.spec.rollbackRetriesLimit)

C1_Witness ==
  /\ limitStable
  /\ cr.spec.rollbackRetriesLimit = Ptr(MaxLimit)
  /\ rbCalls = MaxLimit
  /\ last.op = "Update"
  /\ last.calls = <<>>

(* C2 as stated: whenever the limit is set, status.failed <= limit, and an *)
(* Update that invoked Rollback or Uninstall found status.failed below the *)
(* limit.                                                                  *)
C2_Original ==
  cr.spec.rollbackRetriesLimit # NilPtr =>
    /\ cr.status.failed <= Deref(cr.spec.rollbackRetriesLimit)
    /\ (last.op = "Update" /\ (last.calls = <<"Rollback">> \/ last.calls = <<"Uninstall">>))
         => cr.status.failed - 1 < Deref(cr.spec.rollbackRetriesLimit)

(* C2: status.failed <= rollbackRetriesLimit holds as long as the limit    *)
(* was not edited since status.failed was last reset; and, edits included, *)
(* an Update invokes Rollback or Uninstall only when it finds              *)
(* status.failed below the limit.                                          *)
C2_FailedWithinLimit ==
  [][/\ (cr'.spec.rollbackRetriesLimit # NilPtr /\ limitStable')
          => cr'.status.failed <= Deref(cr'.spec.rollbackRetriesLimit)
     /\ (last'.op = "Update" /\ cr.spec.rollbackRetriesLimit # NilPtr
          /\ cr.status.failed >= Deref(cr.spec.rollbackRetriesLimit))
          => (last'.calls = <<>> \/ last'.path = "deploy") /\ cr'.status.failed = cr.status.failed
    ]_vars

C2_Witness ==
  /\ cr.spec.rollbackRetriesLimit # NilPtr
  /\ cr.status.failed > Deref(cr.spec.rollbackRetriesLimit)
  /\ Deref(cr.spec.rollbackRetriesLimit) > 0
  /\ last.op = "Update"
  /\ last.path = "none"

(* C3: when GetLastRelease returned a release, the Release is not marked   *)
(* for deletion and Observe returned no error, Observe reports exists and  *)
(* upToDate = synced /\ ~(shouldRollBack /\ ~limitReached), where synced   *)
(* is the verdict of the drift check on the stored release.                *)
C3_ObserveVerdict ==
  (last.op = "Observe" /\ last.glr = "release" /\ ~cr.deleted /\ last.err = NoErr) =>
    LET st == cr.status.atProvider.state
        lim == cr.spec.rollbackRetriesLimit
        sr == lim # NilPtr /\ ((cr.status.synced /\ st = StatusFailed)
                                 \/ st = StatusPendingInstall \/ st = StatusPendingUpgrade)
    IN /\ last.out.exists
       /\ cr.status.synced = isUpToDate(kube, cr.spec.forProvider, Deref(helm.rel), cr.status).ok
       /\ last.out.upToDate = (cr.status.synced /\ ~(sr /\ ~(cr.status.failed >= Deref(lim))))

C3_Witness ==
  /\ last.op = "Observe" /\ last.glr = "release" /\ ~cr.deleted /\ last.err = NoErr
  /\ cr.status.synced
  /\ cr.status.atProvider.state = StatusFailed
  /\ cr.spec.rollbackRetriesLimit = Ptr(MaxLimit)
  /\ cr.status.failed = 1
  /\ ~last.out.upToDate

(* C4 as stated: with limit 3 and the release failed and synced, an Update *)
(* rolls back (uninstalls at revision 1) and increments status.failed up   *)
(* to 3 and then makes no helm call, and Observe reports upToDate = false  *)
(* throughout.                                                             *)
C4_Original ==
  (cr.spec.rollbackRetriesLimit = Ptr(3) /\ cr.status.synced
     /\ cr.status.atProvider.state = StatusFailed) =>
    /\ last.op = "Update" =>
         \/ /\ last.calls = (IF cr.status.atProvider.revision = 1 THEN <<"Uninstall">>
                             ELSE <<"Rollback">>)
            /\ cr.status.failed \in 1..3
         \/ last.calls = <<>> /\ cr.status.failed >= 3
    /\ (last.op = "Observe" /\ last.glr = "release" /\ ~cr.deleted /\ last.err = NoErr)
         => ~last.out.upToDate

(* C4: with limit 3 and the release failed and synced, an Update rolls     *)
(* back (uninstalls at revision 1) and increments status.failed up to 3    *)
(* and then makes no helm call; Observe reports upToDate = false while     *)
(* status.failed < 3 and upToDate = true once status.failed has reached 3. *)
C4_ThreeRetries ==
  (cr.spec.rollbackRetriesLimit = Ptr(3) /\ cr.status.synced
     /\ cr.status.atProvider.state = StatusFailed) =>
    /\ last.op = "Update" =>
         \/ /\ last.calls = (IF cr.status.atProvider.revision = 1 THEN <<"Uninstall">>
                             ELSE <<"Rollback">>)
            /\ cr.status.failed \in 1..3
         \/ last.calls = <<>> /\ cr.status.failed >= 3
    /\ (last.op = "Observe" /\ last.glr = "release" /\ ~cr.deleted /\ last.err = NoErr)
         => (last.out.upToDate <=> cr.status.failed >= 3)

C4_Witness ==
  /\ cr.spec.rollbackRetriesLimit = Ptr(3) /\ cr.status.synced
  /\ cr.status.atProvider.state = StatusFailed
  /\ cr.status.failed = 3 /\ rbCalls = 3
  /\ last.op = "Observe" /\ last.err = NoErr /\ last.out.upToDate

(* C5: an Update takes the path its pre-state selects: (a) no call and no  *)
(* change, (b) failed + 1 and Uninstall alone, (c) failed + 1 and Rollback *)
(* alone, (d) deploy(Upgrade) with failed unchanged; on (a)-(c) the spec   *)
(* is neither written nor changed.                                         *)
C5_UpdatePaths ==
  [][(last.op = "Observe" /\ last'.op = "Update") =>
       LET st == cr.status.atProvider.state
           lim == cr.spec.rollbackRetriesLimit
           sr == lim # NilPtr /\ ((cr.status.synced /\ st = StatusFailed)
                                    \/ st = StatusPendingInstall \/ st = StatusPendingUpgrade)
           reached == cr.status.failed >= Deref(lim)
           quiet == last'.writes = 0 /\ cr'.spec = cr.spec
       IN IF sr /\ reached
          THEN last'.calls = <<>> /\ cr' = cr /\ helm' = helm /\ quiet
          ELSE IF sr /\ cr.status.atProvider.revision = 1
          THEN /\ last'.calls = <<"Uninstall">> /\ quiet
               /\ cr'.status = [cr.status EXCEPT !.failed = @ + 1]
          ELSE IF sr
          THEN /\ last'.calls = <<"Rollback">> /\ quiet
               /\ cr'.status = [cr.status EXCEPT !.failed = @ + 1]
          ELSE /\ last'.path = "deploy"
               /\ cr'.status.failed = cr.status.failed
               /\ \A i \in 1..Len(last'.calls) :
                    last'.calls[i] \in {"PullAndLoadChart", "kube.Update", "Upgrade"}
               /\ last'.err = NoErr => last'.calls[Len(last'.calls)] = "Upgrade"
    ]_vars

C5_Witness ==
  /\ last.op = "Update"
  /\ last.calls = <<"Uninstall">>
  /\ cr.status.atProvider.revision = 1
  /\ cr.status.atProvider.state = StatusPendingInstall
  /\ cr.status.failed = 2

(* C6 as stated: while status.failed, incremented at least once, has       *)
(* reached the limit and the user has not edited the spec since, Create    *)
(* and Update invoke no Rollback,                                          *)
(* Uninstall, Install or Upgrade; once the user edited the spec, Update    *)
(* runs deploy(Upgrade).  (The stated reset of status.failed by a later    *)
(* Observe is not part of this formula.)                                   *)
C6_Original ==
  [][(last'.op \in {"Create", "Update"} /\ cr.spec.rollbackRetriesLimit # NilPtr
        /\ cr.status.failed > 0
        /\ cr.status.failed >= Deref(cr.spec.rollbackRetriesLimit)) =>
       IF specEdited
       THEN last'.op = "Update" => last'.path = "deploy"
       ELSE \A i \in 1..Len(last'.calls) :
              last'.calls[i] \notin {"Rollback", "Uninstall", "Install", "Upgrade"}
    ]_vars

(* C6: while status.failed has reached the limit, Update invokes neither   *)
(* Rollback nor Uninstall, and no helm call at all while the recorded      *)
(* release state is pending-install, pending-upgrade, or failed with       *)
(* synced = true; in every other recorded state Update runs                *)
(* deploy(Upgrade); and an error-free Observe of a Release not marked for  *)
(* deletion that finds the release deployed and synced leaves              *)
(* status.failed = 0.                                                      *)
C6_CapHolds ==
  [][/\ (last'.op = "Update" /\ cr.spec.rollbackRetriesLimit # NilPtr
           /\ cr.status.failed >= Deref(cr.spec.rollbackRetriesLimit)) =>
          LET st == cr.status.atProvider.state
          IN /\ \A i \in 1..Len(last'.calls) : last'.calls[i] \notin {"Rollback", "Uninstall"}
             /\ IF st \in {StatusPendingInstall, StatusPendingUpgrade}
                     \/ (st = StatusFailed /\ cr.status.synced)
                THEN last'.calls = <<>> /\ helm' = helm /\ cr' = cr
                ELSE last'.path = "deploy"
     /\ (last'.op = "Observe" /\ last'.err = NoErr /\ last'.glr = "release" /\ ~cr'.deleted
           /\ cr'.status.atProvider.state = StatusDeployed /\ cr'.status.synced)
          => cr'.status.failed = 0
    ]_vars

C6_Witness ==
  /\ cr.spec.rollbackRetriesLimit # NilPtr
  /\ Deref(cr.spec.rollbackRetriesLimit) > 0
  /\ cr.status.failed >= Deref(cr.spec.rollbackRetriesLimit)
  /\ specEdited
  /\ last.op = "Update" /\ last.path = "deploy" /\ last.err = NoErr
  /\ cr.status.atProvider.state = StatusDeployed

(***************************************************************************)
(* Properties of Observe.                                                  *)
(***************************************************************************)
(* C7: Observe returns exists = false without error exactly when           *)
(* GetLastRelease reported release-not-found; another GetLastRelease error *)
(* comes back wrapped as errFailedToGetLastRelease and a nil release as    *)
(* errLastReleaseIsNil; in the three cases the Release (status and         *)
(* condition included) is unchanged and no object is read.                 *)
C7_ObserveNoRelease ==
  [][last'.op = "Observe" =>
       /\ (~last'.out.exists /\ last'.err = NoErr) <=> last'.glr = "notfound"
       /\ last'.glr = "error" => last'.err = errFailedToGetLastRelease \o ": " \o errHelm
       /\ last'.glr = "nil" => last'.err = errLastReleaseIsNil
       /\ last'.glr \in {"notfound", "error", "nil"} =>
            cr' = cr /\ last'.reads = {} /\ last'.treads = {} /\ last'.calls = <<"GetLastRelease">>
    ]_vars

C7_Witness ==
  /\ last.op = "Observe" /\ last.glr = "notfound"
  /\ ~last.out.exists /\ last.err = NoErr
  /\ cr.status.atProvider.state = StatusFailed
  /\ cr.status.failed > 0

(* C8: Observe of a Release marked for deletion whose last release exists  *)
(* returns exists = true and no error, reads no object of the control      *)
(* plane or of the target cluster and leaves status.synced, status.failed  *)
(* and the condition unchanged, whatever the sources and the release hold. *)
C8_ObserveDeleted ==
  [][(last'.op = "Observe" /\ cr.deleted /\ last'.glr = "release") =>
       /\ last'.out.exists /\ last'.err = NoErr
       /\ last'.reads = {} /\ last'.treads = {}
       /\ cr'.status.synced = cr.status.synced
       /\ cr'.status.failed = cr.status.failed
       /\ cr'.status.condition = cr.status.condition
       /\ cr'.spec = cr.spec
    ]_vars

C8_Witness ==
  /\ last.op = "Observe" /\ cr.deleted /\ last.glr = "release"
  /\ last.out.exists /\ last.err = NoErr
  /\ kube.cm = absent
  /\ cr.status.atProvider = ZeroObservation
  /\ cr.status.synced

(***************************************************************************)
(* Properties of the drift check.                                          *)
(***************************************************************************)
(* C9 as stated: chart name equal, chart version equal or devel asked for, *)
(* canonical composed values equal to H.config (nil as the empty map) and  *)
(* current patch sha equal to status.patchesSha make isUpToDate return     *)
(* true without error.                                                     *)
C9_Original ==
  LET in == cr.spec.forProvider
      H == Deref(helm.rel)
      cv == composeValuesFromSpec(kube, in)
      g == getFromSpec(kube, in.patchesFrom)
  IN (/\ last.calls = <<"isUpToDate">>
      /\ H.chart # NilPtr /\ Deref(H.chart).metadata # NilPtr
      /\ Deref(Deref(H.chart).metadata).name = in.chart.name
      /\ (Deref(Deref(H.chart).metadata).version = in.chart.version \/ in.chart.version = devel)
      /\ cv.err = NoErr /\ yamlMarshal(cv.vals) = yamlMarshal(observedConfigOf(H))
      /\ g.err = NoErr /\ shaOf(g.patches) = cr.status.patchesSha)
     => (last.out.upToDate /\ last.err = NoErr)

(* C9: when moreover H carries its info and its status is not pending,     *)
(* chart name equal, chart version equal or devel asked for, canonical     *)
(* composed values equal to H.config (nil as the empty map) and current    *)
(* patch sha equal to status.patchesSha make isUpToDate return true        *)
(* without error.                                                          *)
C9_UpToDate ==
  LET in == cr.spec.forProvider
      H == Deref(helm.rel)
      cv == composeValuesFromSpec(kube, in)
      g == getFromSpec(kube, in.patchesFrom)
  IN (/\ last.calls = <<"isUpToDate">>
      /\ H.info # NilPtr /\ ~isPending(Deref(H.info).status)
      /\ H.chart # NilPtr /\ Deref(H.chart).metadata # NilPtr
      /\ Deref(Deref(H.chart).metadata).name = in.chart.name
      /\ (Deref(Deref(H.chart).metadata).version = in.chart.version \/ in.chart.version = devel)
      /\ cv.err = NoErr /\ yamlMarshal(cv.vals) = yamlMarshal(observedConfigOf(H))
      /\ g.err = NoErr /\ shaOf(g.patches) = cr.status.patchesSha)
     => (last.out.upToDate /\ last.err = NoErr)

C9_Witness ==
  /\ last.op = "isUpToDate"
  /\ last.out.upToDate /\ last.err = NoErr
  /\ cr.spec.forProvider.chart.version = devel
  /\ Deref(helm.rel).config = NilPtr
  /\ Deref(Deref(helm.rel).info).status = StatusFailed

(* C10 as stated: from inputs found up to date, a mutation of chart.name,  *)
(* of chart.version (devel neither before nor after), of the inline        *)
(* values, of a valuesFrom source, of a set override, of the patch set     *)
(* that changes its sha, or of the recorded sha other than in letter case  *)
(* makes isUpToDate return false.                                          *)
C10_Original ==
  [][(FoundUpToDate /\ last'.op = "mutate"
        /\ (last'.path = "chart.version" =>
              devel \notin {cr.spec.forProvider.chart.version, cr'.spec.forProvider.chart.version})
        /\ (last'.path = "patches" =>
              shaOf(getFromSpec(kube', cr'.spec.forProvider.patchesFrom).patches)
                # shaOf(getFromSpec(kube, cr.spec.forProvider.patchesFrom).patches))
        /\ (last'.path = "patchesSha" =>
              ~EqualFold(cr'.status.patchesSha, cr.status.patchesSha)))
       => ~last'.out.upToDate
    ]_vars

(* C10: from inputs found up to date, isUpToDate returns false after a     *)
(* mutation of chart.name, of chart.version (devel neither before nor      *)
(* after), of the inline values, a valuesFrom source or a set override     *)
(* that changes the canonical composed values, of the patch set that       *)
(* changes its sha, or of the recorded sha other than in letter case.      *)
C10_MutationDetected ==
  [][(FoundUpToDate /\ last'.op = "mutate"
        /\ (last'.path = "chart.version" =>
              devel \notin {cr.spec.forProvider.chart.version, cr'.spec.forProvider.chart.version})
        /\ (last'.path \in {"values", "valuesFrom", "set"} =>
              LET old == composeValuesFromSpec(kube, cr.spec.forProvider)
                  new == composeValuesFromSpec(kube', cr'.spec.forProvider)
              IN new.err # NoErr \/ yamlMarshal(new.vals) # yamlMarshal(old.vals))
        /\ (last'.path = "patches" =>
              shaOf(getFromSpec(kube', cr'.spec.forProvider.patchesFrom).patches)
                # shaOf(getFromSpec(kube, cr.spec.forProvider.patchesFrom).patches))
        /\ (last'.path = "patchesSha" =>
              ~EqualFold(cr'.status.patchesSha, cr.status.patchesSha)))
       => ~last'.out.upToDate
    ]_vars

C10_Witness ==
  /\ last.op = "mutate" /\ last.path = "valuesFrom"
  /\ ~last.out.upToDate /\ last.err = NoErr
  /\ cr.spec.forProvider.values = "a: {c: 2}"
  /\ Deref(helm.rel).config = Ptr([a |-> M([b |-> F(1), c |-> F(2)])])

(* C11: when the spec asks for chart version devel (">0.0.0-0"), the       *)
(* verdict of isUpToDate is the same for every observed chart version, and *)
(* on an observed release that carries its info (not pending), chart and   *)
(* metadata it is true exactly when the chart names are equal, the         *)
(* canonical composed values equal the observed config and the sha of the  *)
(* loaded patches equals the recorded one.                                 *)
C11_DevelIgnoresVersion ==
  LET in == cr.spec.forProvider
      H == Deref(helm.rel)
      cv == composeValuesFromSpec(kube, in)
      g == getFromSpec(kube, in.patchesFrom)
  IN (last.calls = <<"isUpToDate">> /\ in.chart.version = devel) =>
       /\ \A ov \in {"v1", "v2", "v3", devel, ""} :
            /\ isUpToDate(kube, in, observedAt(H, ov), cr.status).ok = last.out.upToDate
            /\ isUpToDate(kube, in, observedAt(H, ov), cr.status).err = last.err
       /\ (H.info # NilPtr /\ ~isPending(Deref(H.info).status)) =>
            (last.out.upToDate <=>
               /\ in.chart.name = Deref(Deref(H.chart).metadata).name
               /\ cv.err = NoErr /\ yamlMarshal(cv.vals) = yamlMarshal(observedConfigOf(H))
               /\ g.err = NoErr /\ EqualFold(shaOf(g.patches), cr.status.patchesSha))

C11_Witness ==
  /\ last.op = "isUpToDate"
  /\ cr.spec.forProvider.chart.version = devel
  /\ Deref(Deref(Deref(helm.rel).chart).metadata).version = "v3"
  /\ last.out.upToDate /\ last.err = NoErr
  /\ cr.spec.forProvider.values = "a: 2"

(* C12: when the management policies are set and name neither Update nor   *)
(* all actions, and the observed release has its info, a status that is    *)
(* not pending, its chart and its chart metadata, the drift check on the   *)
(* ReleaseSpec returns true without error and reads no source, whatever    *)
(* chart name, chart version, values and patches are; when the policies    *)
(* name Update or all actions, or are not set, it returns what isUpToDate  *)
(* returns.                                                                *)
C12_PoliciesWithoutUpdate ==
  LET H == Deref(helm.rel)
      pol == cr.spec.managementPolicies
      normal == isUpToDate(kube, cr.spec.forProvider, H, cr.status)
  IN last.calls = <<"isUpToDateOfSpec">> =>
       /\ (/\ pol # {} /\ "Update" \notin pol /\ "*" \notin pol
           /\ H.info # NilPtr /\ ~isPending(Deref(H.info).status)
           /\ H.chart # NilPtr /\ Deref(H.chart).metadata # NilPtr)
            => (last.out.upToDate /\ last.err = NoErr /\ last.reads = {})
       /\ ("Update" \in pol \/ "*" \in pol \/ pol = {})
            => (last.out.upToDate = normal.ok /\ last.err = normal.err)

C12_Witness ==
  /\ last.calls = <<"isUpToDateOfSpec">>
  /\ cr.spec.managementPolicies = {"Observe", "Create", "Delete"}
  /\ cr.spec.forProvider.chart.name = "c2"
  /\ cr.spec.forProvider.chart.version = "v2"
  /\ cr.spec.forProvider.values = "a: 2"
  /\ Deref(helm.rel).config = NilPtr
  /\ last.out.upToDate /\ last.err = NoErr
  /\ Deref(helm.rel).info # NilPtr
  /\ Deref(Deref(helm.rel).info).status = StatusFailed

(***************************************************************************)
(* Properties of the patch digest.                                         *)
(***************************************************************************)
(* C13 as stated: whenever the sha of the patches currently loaded from    *)
(* patchesFrom differs from status.patchesSha, an Observe that returns     *)
(* without error leaves synced = false and reports upToDate = false.       *)
C13_Original ==
  [][(/\ last'.op = "Observe" /\ last'.err = NoErr
      /\ getFromSpec(kube, cr.spec.forProvider.patchesFrom).err = NoErr
      /\ shaOf(getFromSpec(kube, cr.spec.forProvider.patchesFrom).patches)
           # cr.status.patchesSha)
       => (~cr'.status.synced /\ ~last'.out.upToDate)
    ]_vars

(* C13: whenever the sha of the patches currently loaded from patchesFrom  *)
(* differs, other than in letter case, from status.patchesSha, an Observe  *)
(* of a Release not marked for deletion that gets a release from           *)
(* GetLastRelease and returns without error leaves synced = false and      *)
(* reports upToDate = false.                                               *)
C13_PatchDriftReported ==
  [][(/\ last'.op = "Observe" /\ last'.err = NoErr
      /\ last'.glr = "release" /\ ~cr.deleted
      /\ getFromSpec(kube, cr.spec.forProvider.patchesFrom).err = NoErr
      /\ ~EqualFold(shaOf(getFromSpec(kube, cr.spec.forProvider.patchesFrom).patches),
                    cr.status.patchesSha))
       => (~cr'.status.synced /\ ~last'.out.upToDate)
    ]_vars

C13_Witness ==
  /\ last.op = "Observe" /\ last.err = NoErr /\ last.glr = "release" /\ ~cr.deleted
  /\ cr.status.patchesSha = shaOf(<<"p1">>)
  /\ Deref(kube.pcm.data)[keyDefaultPatchFrom] = "patches: [p2]"
  /\ cr.status.atProvider.state = StatusDeployed
  /\ "pcm" \in last.reads
  /\ ~cr.status.synced /\ ~last.out.upToDate

(***************************************************************************)
(* Properties of the data-source resolver.                                 *)
(***************************************************************************)
(* C14 as stated: getDataValueFromSource returns the SourceUnset error     *)
(* when no reference is set; an error when the object is not found and     *)
(* optional is false, "" without error when it is not found and optional   *)
(* is true; the MissingKey error when the object exists, the key (key, or  *)
(* defaultKey when key is empty) is absent and optional is false, "" when  *)
(* the key is absent and optional is true; the string stored at the key    *)
(* when the object exists and holds the key.                               *)
C14_Original ==
  last.op = "getDataValueFromSource" =>
    LET unset == cr.source.secretKeyRef = NilPtr /\ cr.source.configMapKeyRef = NilPtr
        r == IF cr.source.secretKeyRef # NilPtr THEN Deref(cr.source.secretKeyRef)
             ELSE Deref(cr.source.configMapKeyRef)
        o == kube[r.name]
        key == IF r.key # "" THEN r.key ELSE cr.defaultKey
        held == o.data # NilPtr /\ key \in DOMAIN Deref(o.data)
    IN IF unset THEN last.err = errSourceNotSetForValueFrom /\ last.val = ""
       ELSE /\ (o.get = errNotFound /\ ~r.optional) => (last.err # NoErr /\ last.val = "")
            /\ (o.get = errNotFound /\ r.optional) => (last.err = NoErr /\ last.val = "")
            /\ (o.get = NoErr /\ ~held /\ ~r.optional)
                 => (last.err = errMissingKeyForValuesFrom /\ last.val = "")
            /\ (o.get = NoErr /\ ~held /\ r.optional) => (last.err = NoErr /\ last.val = "")
            /\ (o.get = NoErr /\ held) => (last.err = NoErr /\ last.val = Deref(o.data)[key])

(* C14: getDataValueFromSource returns the SourceUnset error when no       *)
(* reference is set (the secret reference is the one used when both are);  *)
(* an error when the object is not found and optional is false, "" without *)
(* error when it is not found and optional is true; the wrapped error,     *)
(* whatever optional is, when the GET fails otherwise or the object has no *)
(* data at all; the MissingKey error when the object has data, the key     *)
(* (key, or defaultKey when key is empty) is absent and optional is false, *)
(* "" when the key is absent and optional is true; the string stored at    *)
(* the key when the object holds it.                                       *)
C14_SourceCases ==
  last.op = "getDataValueFromSource" =>
    LET unset == cr.source.secretKeyRef = NilPtr /\ cr.source.configMapKeyRef = NilPtr
        secret == cr.source.secretKeyRef # NilPtr
        r == IF secret THEN Deref(cr.source.secretKeyRef) ELSE Deref(cr.source.configMapKeyRef)
        o == kube[r.name]
        key == IF r.key # "" THEN r.key ELSE cr.defaultKey
        hasData == o.get = NoErr /\ o.data # NilPtr
        held == hasData /\ key \in DOMAIN Deref(o.data)
        wrapMsg == IF secret THEN errFailedToGetDataFromSecretRef
                   ELSE errFailedToGetDataFromConfigMapRef
    IN IF unset THEN last.err = errSourceNotSetForValueFrom /\ last.val = ""
       ELSE /\ (o.get = errNotFound /\ ~r.optional) => (last.err # NoErr /\ last.val = "")
            /\ (o.get = errNotFound /\ r.optional) => (last.err = NoErr /\ last.val = "")
            /\ (o.get \notin {NoErr, errNotFound}) =>
                 (last.val = "" /\ last.err = wrapMsg \o ": "
                    \o (IF secret THEN errFailedToGetSecret ELSE errFailedToGetConfigMap)
                    \o ": " \o o.get)
            /\ (o.get = NoErr /\ o.data = NilPtr) =>
                 (last.val = "" /\ last.err = wrapMsg \o ": "
                    \o (IF secret THEN errSecretDataIsNil ELSE errConfigMapDataIsNil))
            /\ (hasData /\ ~held /\ ~r.optional)
                 => (last.err = errMissingKeyForValuesFrom /\ last.val = "")
            /\ (hasData /\ ~held /\ r.optional) => (last.err = NoErr /\ last.val = "")
            /\ held => (last.err = NoErr /\ last.val = Deref(o.data)[key])

C14_Witness ==
  /\ last.op = "getDataValueFromSource"
  /\ cr.source.configMapKeyRef = Ptr(keyRef("", TRUE))
  /\ cr.source.secretKeyRef = NilPtr
  /\ cr.defaultKey = keyDefaultSet
  /\ kube.src = present("k", "v1")
  /\ last.val = "" /\ last.err = NoErr

(***************************************************************************)
(* Properties of the value composer.                                       *)
(***************************************************************************)
(* C15: the composed values are the layers valuesFrom[1..n], inline        *)
(* values, set[1..m] laid over each other in that order: a key is in the   *)
(* result exactly when some layer has it; when the latest layer that has   *)
(* it holds a scalar there, the result holds that scalar; when it holds a  *)
(* mapping, the result holds the mapping merged from the layers that come  *)
(* after the latest scalar for the key, each nested key from the latest of *)
(* those layers that has it.                                               *)
C15_LayerOrder ==
  (last.op = "composeValuesFromSpec" /\ last.err = NoErr) =>
    LET in == cr.spec.forProvider
        L == [i \in 1..Len(in.valuesFrom) |->
                yamlUnmarshal(Deref(kube[Deref(in.valuesFrom[i].configMapKeyRef).name].data)
                                [keyDefaultValuesFrom]).m]
             \o <<yamlUnmarshal(in.values).m>>
             \o [i \in 1..Len(in.set) |->
                   [x \in {in.set[i].name} |-> typedVal(in.set[i].value)]]
        res == Deref(last.vals)
        has(x) == {i \in 1..Len(L) : x \in DOMAIN L[i]}
        max(js) == CHOOSE j \in js : \A i \in js : i <= j
        after(x) == {i \in has(x) :
                       \A j \in has(x) : L[j][x].k # "map" => j < i}
        hasIn(x, y) == {i \in after(x) : y \in DOMAIN L[i][x].m}
    IN /\ DOMAIN res = UNION {DOMAIN L[i] : i \in 1..Len(L)}
       /\ \A x \in DOMAIN res :
            IF L[max(has(x))][x].k # "map"
            THEN res[x] = L[max(has(x))][x]
            ELSE /\ res[x].k = "map"
                 /\ DOMAIN res[x].m = UNION {DOMAIN L[i][x].m : i \in after(x)}
                 /\ \A y \in DOMAIN res[x].m : res[x].m[y] = L[max(hasIn(x, y))][x].m[y]

C15_Witness ==
  /\ last.op = "composeValuesFromSpec" /\ last.err = NoErr
  /\ Len(cr.spec.forProvider.valuesFrom) = 2
  /\ cr.spec.forProvider.valuesFrom[1] = configMapRef("cm2", FALSE)
  /\ kube.cm2 = present(keyDefaultValuesFrom, "a: 1")
  /\ kube.cm = present(keyDefaultValuesFrom, "a: {b: 1}")
  /\ cr.spec.forProvider.values = "a: {c: 2}"
  /\ cr.spec.forProvider.set = <<setEntry("b", "x"), setEntry("c", "2")>>
  /\ Deref(last.vals) = [a |-> M([b |-> F(1), c |-> F(2)]), b |-> S("x"), c |-> I(2)]

(***************************************************************************)
(* Properties of Create and of deploy on Releases that leave the chart     *)
(* name or version to the repository (SpecDeploy).                         *)
(***************************************************************************)
(* C16: in Create, unless skipCreateNamespace is set, the create of the target
   namespace is the first call, before Install; the namespace it creates carries
   the label app.kubernetes.io/managed-by=provider-helm; when the namespace exists
   already (AlreadyExists) it is left as it is and the deploy goes on to Install
   unless it stops on an error of its own; any other error of the namespace create
   fails Create with that error wrapped as FailedToCreateNamespace, Install is not
   called and nothing changes; with skipCreateNamespace set no namespace create is
   issued and the target namespace is left as it is. *)
C16_NamespaceBeforeInstall ==
  [][last'.op = "Create" =>
       LET calls == last'.calls
           at(name) == {i \in 1..Len(calls) : calls[i] = name}
       IN IF cr.spec.forProvider.skipCreateNamespace
          THEN /\ at("kube.Create") = {}
               /\ tkube'.ns = tkube.ns /\ tkube'.nsLabels = tkube.nsLabels
               /\ last'.path = "deploy"
          ELSE /\ at("kube.Create") = {1}
               /\ \A i \in at("Install") : i > 1
               /\ tkube.ns =>
                     /\ tkube' = tkube
                     /\ last'.path = "deploy"
                     /\ \/ at("Install") # {}
                        \/ /\ last'.err # NoErr
                           /\ calls[Len(calls)] \in {"PullAndLoadChart", "kube.Update"}
               /\ (~tkube.ns /\ tkube'.ns) =>
                     /\ tkube'.nsLabels = [x \in {helmNamespaceLabel} |-> helmProviderName]
                     /\ last'.path = "deploy"
               /\ (~tkube.ns /\ ~tkube'.ns) =>
                     /\ last'.path = "namespace"
                     /\ last'.err = Wrap(errForbidden, errFailedToCreateNamespace)
                     /\ at("Install") = {}
                     /\ helm' = helm /\ cr' = cr /\ tkube' = tkube]_vars

(* a Create that created the labelled namespace and then installed the release *)
C16_Witness ==
  /\ last.op = "Create"
  /\ ~cr.spec.forProvider.skipCreateNamespace
  /\ last.calls = <<"kube.Create", "PullAndLoadChart", "Install">>
  /\ last.err = NoErr
  /\ tkube.ns
  /\ tkube.nsLabels = [x \in {helmNamespaceLabel} |-> helmProviderName]
  /\ helm.rel # NilPtr

(* C17: a deploy (by Create or Update) that returns success on a Release whose
   spec chart.version was empty when it started, or was set by the late-init of an
   earlier deploy that failed, leaves the persisted spec chart.version equal to the
   metadata version of the chart the release was installed or upgraded with, which
   is one the repository resolved; when the version was empty at the start, the
   version was written to the control plane before the helm action was called. *)
C17_VersionLateInit ==
  [][(/\ last'.op \in {"Create", "Update"}
      /\ last'.path = "deploy"
      /\ last'.err = NoErr
      /\ cr.spec.forProvider.chart.version \in {""} \cup LatestVersions) =>
       LET calls == last'.calls
           at(names) == {i \in 1..Len(calls) : calls[i] \in names}
       IN /\ helm'.rel # NilPtr
          /\ Deref(helm'.rel).chart # NilPtr
          /\ cr'.spec.forProvider.chart.version
               = Deref(Deref(Deref(helm'.rel).chart).metadata).version
          /\ cr'.spec.forProvider.chart.version \in LatestVersions
          /\ cr.spec.forProvider.chart.version # "" =>
                cr'.spec.forProvider.chart.version = cr.spec.forProvider.chart.version
          /\ cr.spec.forProvider.chart.version = "" =>
                /\ last'.writes >= 1
                /\ \E i \in at({"kube.Update"}) :
                     \A j \in at({"Install", "Upgrade"}) : i < j]_vars

(* a successful Create on a Release without chart version: the version the
   repository resolved is in the spec and in the installed release *)
C17_Witness ==
  /\ last.op = "Create"
  /\ last.err = NoErr
  /\ last.writes = 1
  /\ last.calls[Len(last.calls)] = "Install"
  /\ helm.rel # NilPtr
  /\ cr.spec.forProvider.chart.version = "v3"
  /\ Deref(Deref(Deref(helm.rel).chart).metadata).version = "v3"

(* C18: no step of the engine leaves a partial spec write.  The only change an
   engine operation makes to the spec is the late-init, by deploy, of an empty
   chart.name and an empty chart.version to the name and version of the pulled
   chart, each counted as one persisted write; every helm Install/Upgrade call
   comes after the writes, with name and version set; when a write fails the
   operation returns FailedToSetName or FailedToSetVersion, the helm action is not
   called and the history is unchanged; and a spec left with a late-initialised
   version resolves to that version at every later pull, so that every revision
   a deploy stores, failed or not, has the chart version the spec holds. *)
C18_NoPartialSpecWrite ==
  [][last'.op # "none" =>
       LET old == cr.spec.forProvider.chart
           new == cr'.spec.forProvider.chart
           calls == last'.calls
           at(names) == {i \in 1..Len(calls) : calls[i] \in names}
           wrapMsg == IF last'.op = "Create" THEN errFailedToInstall ELSE errFailedToUpgrade
           changed == (IF new.name # old.name THEN 1 ELSE 0)
                        + (IF new.version # old.version THEN 1 ELSE 0)
       IN /\ cr'.spec = [cr.spec EXCEPT !.forProvider.chart.name = new.name,
                                        !.forProvider.chart.version = new.version]
          /\ new.name # old.name => old.name = "" /\ new.name = RepoChartName
          /\ new.version # old.version => old.version = "" /\ new.version \in LatestVersions
          /\ last'.writes = changed
          /\ changed > 0 => last'.path = "deploy" /\ last'.op \in {"Create", "Update"}
          /\ \A j \in at({"Install", "Upgrade"}) :
               /\ new.name # "" /\ new.version # ""
               /\ \A i \in at({"kube.Update"}) : i < j
          /\ Cardinality(at({"kube.Update"})) > changed =>
               /\ last'.err = Wrap(Wrap(errKubeUpdate,
                                        IF new.name = "" THEN errFailedToSetName
                                        ELSE errFailedToSetVersion), wrapMsg)
               /\ at({"Install", "Upgrade"}) = {}
               /\ helm' = helm
               /\ Cardinality(at({"kube.Update"})) = changed + 1
          /\ new.version \in LatestVersions =>
               \A r \in PullAndLoadChartResults(new) :
                 r.err = NoErr => Deref(Deref(r.chart).metadata).version = new.version
          /\ (/\ last'.path = "deploy" /\ helm'.rel # helm.rel /\ helm'.rel # NilPtr
              /\ old.version # devel) =>
               Deref(Deref(Deref(helm'.rel).chart).metadata).version = new.version]_vars

(* an Upgrade that failed on a Release whose version an earlier failed Create
   had late-initialised: the failed revision has the version of the spec *)
C18_Witness ==
  /\ last.op = "Update"
  /\ last.path = "deploy"
  /\ last.err # NoErr
  /\ last.calls = <<"PullAndLoadChart", "Upgrade">>
  /\ cr.spec.forProvider.chart.version = "v2"
  /\ cr.spec.forProvider.chart.name = RepoChartName
  /\ helm.rel # NilPtr
  /\ Deref(helm.rel).version = 2
  /\ Deref(Deref(helm.rel).info).status = StatusFailed
  /\ Deref(Deref(Deref(helm.rel).chart).metadata).version = "v2"

(***************************************************************************)
(* Properties of Delete called again (SpecDelete).                         *)
(***************************************************************************)
(* C19 as claimed: a Delete that follows a Delete that returned no error leaves
   the Release, the control plane, the target cluster and the helm history as they
   were and returns no error either. *)
C19_Original ==
  [][(last.op = "Delete" /\ last.err = NoErr /\ last'.op = "Delete") =>
       /\ cr' = cr /\ kube' = kube /\ tkube' = tkube /\ helm' = helm
       /\ last'.err = NoErr]_vars

(* C19: a Delete that follows a Delete that returned no error calls Uninstall
   once more, leaves the Release, the control plane, the target cluster and the
   helm history (no release) as they were, and returns the error of that Uninstall,
   release: not found, wrapped as FailedToUninstall. *)
C19_DeleteTwice ==
  [][(last.op = "Delete" /\ last.err = NoErr /\ last'.op = "Delete") =>
       /\ cr' = cr /\ kube' = kube /\ tkube' = tkube /\ helm' = helm
       /\ helm.rel = NilPtr
       /\ last'.calls = <<"Uninstall">>
       /\ last'.err = Wrap(ErrReleaseNotFound, errFailedToUninstall)]_vars

(* a Delete on a Release whose release was installed and is gone *)
C19_Witness ==
  /\ last.op = "Delete"
  /\ last.err = Wrap(ErrReleaseNotFound, errFailedToUninstall)
  /\ helm.rel = NilPtr
  /\ cr.deleted
  /\ cr.status.atProvider.revision = 1

(***************************************************************************)
(* Properties of the connection-detail extractor (SpecDetails).            *)
(***************************************************************************)
(* C20: for the entries of a connectionDetails call, in list order: the call
   returns no error only if every entry with skipPartOfReleaseCheck false names
   an object that carries both annotations meta.helm.sh/release-name = release
   name and meta.helm.sh/release-namespace = release namespace; at the first
   entry that has the check, whose object was fetched and lacks either annotation
   or has another value for it, the call fails with ObjectNotPartOfRelease and the
   result holds exactly the keys of the entries before it; and when the entries
   naming an object all skip the check, the result is the same whatever the
   annotations of that object are. *)
C20_PartOfReleaseCheck ==
  last.op = "connectionDetails" =>
    LET cds == cr.spec.connectionDetails
        obj(i) == tkube.objs[cds[i].name]
        carries(o) ==
          /\ helmReleaseNameAnnotation \in DOMAIN o.annotations
          /\ o.annotations[helmReleaseNameAnnotation] = releaseName
          /\ helmReleaseNamespaceAnnotation \in DOMAIN o.annotations
          /\ o.annotations[helmReleaseNamespaceAnnotation] = releaseNamespace
        passes(i) ==
          /\ obj(i).get = NoErr
          /\ cds[i].skipPartOfReleaseCheck \/ carries(obj(i))
          /\ cds[i].fieldPath \in DOMAIN obj(i).fields
    IN /\ last.err = NoErr =>
            \A i \in 1..Len(cds) : ~cds[i].skipPartOfReleaseCheck => carries(obj(i))
       /\ \A i \in 1..Len(cds) :
            (/\ \A j \in 1..(i - 1) : passes(j)
             /\ obj(i).get = NoErr
             /\ ~cds[i].skipPartOfReleaseCheck
             /\ ~carries(obj(i))) =>
              /\ last.err = errObjectNotPartOfRelease
              /\ DOMAIN last.cd = {cds[j].toConnectionSecretKey : j \in 1..(i - 1)}
              /\ cds[i].toConnectionSecretKey \notin DOMAIN last.cd
       /\ (\A i \in 1..Len(cds) : cds[i].name = "db" => cds[i].skipPartOfReleaseCheck) =>
            \A a \in DetailAnnotations :
              connectionDetails([tkube.objs EXCEPT !.db.annotations = a], cds,
                                releaseName, releaseNamespace)
                = [cd |-> last.cd, err |-> last.err, reads |-> last.reads]

(* an entry with the check whose object has the name annotation only: the call
   fails after the key of the entry before it was produced *)
C20_Witness ==
  /\ last.op = "connectionDetails"
  /\ last.err = errObjectNotPartOfRelease
  /\ DOMAIN last.cd = {"host"}
  /\ DOMAIN tkube.objs.db.annotations = {helmReleaseNameAnnotation}
  /\ tkube.objs.db.annotations[helmReleaseNameAnnotation] = releaseName
  /\ ~cr.spec.connectionDetails[2].skipPartOfReleaseCheck

(***************************************************************************)
(* Properties of the reconciles of an unchanged Release (SpecSteady).      *)
(***************************************************************************)
(* C21: with the spec and the sources unchanged: an Observe that finds no
   release and returns no error reports exists=false; a Create calls Install at
   most once, and exactly once when it returns no error; the Observe that follows
   a Create that returned no error, when it returns no error itself, reports
   state=deployed, synced=true and upToDate=true; and while the release that
   Create installed stays the deployed first revision and the Release is not
   marked for deletion, every Observe that returns no error reports the same and
   no step calls Install, Upgrade, Rollback or Uninstall or changes the history. *)
C21_InstallFromScratch ==
  [][LET calls == last'.calls
         at(names) == {i \in 1..Len(calls) : calls[i] \in names}
         installed ==
           /\ helm.rel # NilPtr
           /\ Deref(helm.rel).version = 1
           /\ Deref(Deref(helm.rel).info).status = StatusDeployed
           /\ ~cr.deleted
         reported ==
           /\ last'.out.exists /\ last'.out.upToDate
           /\ cr'.status.synced
           /\ cr'.status.atProvider.state = StatusDeployed
     IN /\ (last'.op = "Observe" /\ helm.rel = NilPtr /\ last'.err = NoErr) =>
             ~last'.out.exists
        /\ last'.op = "Create" =>
             /\ Cardinality(at({"Install"})) <= 1
             /\ last'.err = NoErr => Cardinality(at({"Install"})) = 1
             /\ at({"Upgrade", "Rollback", "Uninstall"}) = {}
        /\ (last.op = "Create" /\ last.err = NoErr /\ last'.op = "Observe"
              /\ last'.err = NoErr) => reported
        /\ (installed /\ last'.op = "Observe" /\ last'.err = NoErr) => reported
        /\ (installed /\ ~cr'.deleted) =>
             /\ at({"Install", "Upgrade", "Rollback", "Uninstall"}) = {}
             /\ helm' = helm]_vars

(* the release Create installed, observed as deployed, synced and up to date for
   the second time in a row *)
C21_Witness ==
  /\ last.op = "Observe"
  /\ last.err = NoErr
  /\ last.out.exists /\ last.out.upToDate
  /\ cr.status.synced
  /\ cr.status.atProvider.state = StatusDeployed
  /\ cr.status.atProvider.revision = 1
  /\ cr.status.condition = Available
  /\ helm.rel # NilPtr
  /\ Deref(helm.rel).version = 1

(* C22 as claimed: no step of Observe, Create, Update or Delete decreases
   status.failed. *)
C22_Original ==
  [][last'.op \in {"Observe", "Create", "Update", "Delete"} =>
       cr'.status.failed >= cr.status.failed]_vars

(* C22: Create and Delete leave status.failed as it is; Update adds one to it
   exactly when it takes the Rollback or the Uninstall branch and leaves it as it
   is otherwise; Observe leaves it as it is or, when it found the release deployed
   and in sync with the spec on a Release not marked for deletion, sets it to 0. *)
C22_FailedCount ==
  [][/\ last'.op \in {"Create", "Delete"} => cr'.status.failed = cr.status.failed
     /\ last'.op = "Update" =>
          cr'.status.failed = IF last'.path \in {"Rollback", "Uninstall"}
                              THEN cr.status.failed + 1
                              ELSE cr.status.failed
     /\ last'.op = "Observe" =>
          \/ cr'.status.failed = cr.status.failed
          \/ /\ cr'.status.failed = 0
             /\ last'.path \in {"available", "cderr"}
             /\ ~cr.deleted
             /\ cr'.status.synced
             /\ cr'.status.atProvider.state = StatusDeployed]_vars

(* an Update that made the second rollback attempt in a row: the count is 2 *)
C22_Witness ==
  /\ last.op = "Update"
  /\ last.path \in {"Rollback", "Uninstall"}
  /\ last.calls # <<>>
  /\ cr.status.failed = 2
  /\ rbCalls = 2

(***************************************************************************)
(* Properties of the rollback predicates (SpecRollback).                   *)
(***************************************************************************)
(* C23: shouldRollBack is false whenever rollbackRetriesLimit is unset; with the
   limit set it is true for the states pending-install and pending-upgrade whatever
   synced is, true for the state failed exactly when synced is true, and false
   for every other state, pending-rollback included; rollBackLimitReached, on a
   Release with the limit set, is true exactly when status.failed is at least
   the limit. *)
C23_RollbackPredicates ==
  LET state == cr.status.atProvider.state
      limit == cr.spec.rollbackRetriesLimit
  IN /\ last.op = "shouldRollBack" =>
          last.result =
            CASE limit = NilPtr -> FALSE
              [] state \in {"pending-install", "pending-upgrade"} -> TRUE
              [] state = "failed" -> cr.status.synced
              [] OTHER -> FALSE
     /\ last.op = "rollBackLimitReached" =>
          \E n \in 0..(MaxLimit + 1) :
            /\ limit = {n}
            /\ last.result = (cr.status.failed >= n)

(* shouldRollBack found false on a failed release that is not in sync, with the
   limit set *)
C23_Witness ==
  /\ last.op = "shouldRollBack"
  /\ ~last.result
  /\ cr.status.atProvider.state = "failed"
  /\ ~cr.status.synced
  /\ cr.spec.rollbackRetriesLimit # NilPtr

(* C24 as claimed: an Observe that got a release, on a Release not marked for
   deletion, whose drift check returned no error: when it finds the state deployed
   and the release in sync it resets status.failed to 0, returns the extracted
   connection details and sets the condition Available; in every other case it
   leaves status.failed as it is, sets the condition Unavailable, returns no
   connection details and reads no object of the target cluster. *)
C24_Original ==
  [][(/\ last'.op = "Observe" /\ last'.glr = "release" /\ ~cr.deleted
      /\ last'.path # "drifterr") =>
       IF cr'.status.atProvider.state = StatusDeployed /\ cr'.status.synced
       THEN /\ cr'.status.failed = 0
            /\ last'.treads = {cr.spec.connectionDetails[i].name :
                                 i \in 1..Len(cr.spec.connectionDetails)}
            /\ last'.out.cd = connectionDetails(tkube.objs, cr.spec.connectionDetails,
                                                releaseName, releaseNamespace).cd
            /\ cr'.status.condition = Available
       ELSE /\ cr'.status.failed = cr.status.failed
            /\ cr'.status.condition = Unavailable
            /\ last'.out.cd = EmptyMap
            /\ last'.treads = {}]_vars

(* C24: as claimed, except that in the case deployed and in sync the connection
   details are returned and the condition Available is set only when their
   extraction succeeds: when it fails, Observe returns that error as
   CannotGetConnectionDetails with no observation, status.failed reset to 0 and
   the condition left as it was. *)
C24_ObserveAvailability ==
  [][(/\ last'.op = "Observe" /\ last'.glr = "release" /\ ~cr.deleted
      /\ last'.path # "drifterr") =>
       IF cr'.status.atProvider.state = StatusDeployed /\ cr'.status.synced
       THEN /\ cr'.status.failed = 0
            /\ last'.treads # {}
            /\ IF last'.err = NoErr
               THEN /\ last'.treads = {cr.spec.connectionDetails[i].name :
                                         i \in 1..Len(cr.spec.connectionDetails)}
                    /\ last'.out.cd =
                         connectionDetails(tkube.objs, cr.spec.connectionDetails,
                                           releaseName, releaseNamespace).cd
                    /\ cr'.status.condition = Available
               ELSE /\ last'.err = Wrap(Wrap(errForbidden, "cannot get object"),
                                        errCannotGetConnectionDetails)
                    /\ last'.out = NoObservation
                    /\ cr'.status.condition = cr.status.condition
       ELSE /\ last'.err = NoErr
            /\ cr'.status.failed = cr.status.failed
            /\ cr'.status.condition = Unavailable
            /\ last'.out.cd = EmptyMap
            /\ last'.treads = {}]_vars

(* an Observe that found the release deployed and in sync and whose read of the
   connection-detail object failed: status.failed is 0, Available is not set *)
C24_Witness ==
  /\ last.op = "Observe"
  /\ last.path = "cderr"
  /\ last.err # NoErr
  /\ last.treads = {"db"}
  /\ cr.status.failed = 0
  /\ cr.status.synced
  /\ cr.status.atProvider.state = StatusDeployed
  /\ cr.status.condition # Available

(***************************************************************************)
(* Properties of the drift check on incomplete releases (SpecParts).       *)
(***************************************************************************)
(* C25: isUpToDate decides in this order: an observed release without info gives
   the error ReleaseInfoNil; otherwise a pending status (pending-install,
   pending-upgrade, pending-rollback) gives false without error, also when the
   chart is missing, and no source is read; otherwise a missing chart gives the
   error ChartNil and missing chart metadata the error ChartMetaNil, no source
   being read; only otherwise the verdict depends on the comparisons: a different
   name or version gives false without error and without reading a source, and
   equal ones make the sources be read.  With an error the verdict is false. *)
C25_PreconditionOrder ==
  last.op = "isUpToDate" =>
    LET o == Deref(helm.rel)
        quiet(err) == last.err = err /\ ~last.out.upToDate /\ last.reads = {}
    IN /\ last.err # NoErr => ~last.out.upToDate
       /\ IF o.info = NilPtr THEN quiet(errReleaseInfoNilInObservedRelease)
          ELSE IF Deref(o.info).status \in {"pending-install", "pending-upgrade",
                                            "pending-rollback"}
          THEN quiet(NoErr)
          ELSE IF o.chart = NilPtr THEN quiet(errChartNilInObservedRelease)
          ELSE IF Deref(o.chart).metadata = NilPtr
          THEN quiet(errChartMetaNilInObservedRelease)
          ELSE IF \/ cr.spec.forProvider.chart.name # Deref(Deref(o.chart).metadata).name
                  \/ cr.spec.forProvider.chart.version
                       # Deref(Deref(o.chart).metadata).version
          THEN quiet(NoErr)
          ELSE last.reads # {}

(* a release in pending-rollback without chart: false, no error, nothing read *)
C25_Witness ==
  /\ last.op = "isUpToDate"
  /\ Deref(helm.rel).info # NilPtr
  /\ Deref(Deref(helm.rel).info).status = StatusPendingRollback
  /\ Deref(helm.rel).chart = NilPtr
  /\ last.err = NoErr
  /\ ~last.out.upToDate
  /\ last.reads = {}

(***************************************************************************)
(* Properties of hasUpdates and shaOf (SpecSha).                           *)
(***************************************************************************)
(* C26: when loading the patches fails, hasUpdates returns false with that
   error; otherwise it returns, without error, true exactly when the digest of
   the loaded patches differs from status.patchesSha in more than letter case;
   so with no patches and an empty status.patchesSha it returns false. *)
C26_HasUpdates ==
  last.op = "hasUpdates" =>
    LET g == getFromSpec(kube, cr.spec.forProvider.patchesFrom)
        sum == shaOf(g.patches)
    IN /\ g.err # NoErr => (~last.changed /\ last.err = g.err)
       /\ g.err = NoErr =>
            /\ last.err = NoErr
            /\ last.changed = (cr.status.patchesSha \notin {sum, ToUpper(sum)})
       /\ (g.err = NoErr /\ g.patches = <<>> /\ cr.status.patchesSha = "") => ~last.changed

(* the recorded digest is the upper-case spelling of the digest of the loaded
   patches: no update *)
C26_Witness ==
  /\ last.op = "hasUpdates"
  /\ ~last.changed
  /\ last.err = NoErr
  /\ cr.status.patchesSha = ToUpper(shaOf(<<"p1">>))
  /\ cr.status.patchesSha # shaOf(<<"p1">>)
  /\ getFromSpec(kube, cr.spec.forProvider.patchesFrom).patches = <<"p1">>

(* C27: shaOf gives the empty string exactly for the empty patch list; lists of
   sources that load the same patch sequence give the same digest, whatever the
   layout of the documents; and the digest of a one-patch list differs from the
   digest of that patch twice. *)
C27_ShaOfSequence ==
  last.op = "shaOf" =>
    \A x \in DOMAIN last.of : \A y \in DOMAIN last.of :
      /\ (last.of[x].sum = "") = (last.of[x].patches = <<>>)
      /\ last.of[x].patches = last.of[y].patches => last.of[x].sum = last.of[y].sum
      /\ (Len(last.of[x].patches) = 1
           /\ last.of[y].patches = last.of[x].patches \o last.of[x].patches) =>
            last.of[x].sum # last.of[y].sum

(* two documents laid out differently load the same patch, a list naming both
   loads it twice *)
C27_Witness ==
  /\ last.op = "shaOf"
  /\ kube.pcm.data # NilPtr
  /\ Deref(kube.pcm.data)[keyDefaultPatchFrom] = "patches: [p1]"
  /\ Deref(kube.pcm2.data)[keyDefaultPatchFrom] = "patches:\n- p1"
  /\ last.of[<<configMapRef("pcm", FALSE)>>].sum = last.of[<<configMapRef("pcm2", FALSE)>>].sum
  /\ last.of[<<configMapRef("pcm", FALSE), configMapRef("pcm2", FALSE)>>].patches
       = <<"p1", "p1">>
  /\ last.of[<<configMapRef("pcm", FALSE), configMapRef("pcm2", FALSE)>>].sum
       # last.of[<<configMapRef("pcm", FALSE)>>].sum

(***************************************************************************)
(* Set entries: inline values, values read through valueFrom, both.        *)
(***************************************************************************)
SetSources ==
  {[secretKeyRef |-> Ptr(keyRef(k, o)), configMapKeyRef |-> NilPtr]
     : k \in {"", "k"}, o \in BOOLEAN}
  \cup {[secretKeyRef |-> NilPtr, configMapKeyRef |-> Ptr(keyRef("", o))] : o \in BOOLEAN}
  \cup {[secretKeyRef |-> NilPtr, configMapKeyRef |-> NilPtr]}

SetEntries ==
  {[name |-> n, value |-> v, valueFrom |-> f]
     : n \in {"a", "b"}, v \in {"", "1"}, f \in {NilPtr} \cup {Ptr(s) : s \in SetSources}}

SetObjects ==
  {absent, [get |-> errForbidden, data |-> NilPtr], [get |-> NoErr, data |-> NilPtr],
   present(keyDefaultSet, "2"), present(keyDefaultSet, ""), present("k", "v1"),
   present("k", "")}

InitSet ==
  /\ \E values \in {"", "a: 2"}, e1 \in SetEntries, e2 \in SetEntries, n \in 1..2 :
       cr = [spec |-> [InitSpec(values, NilPtr) EXCEPT
                         !.forProvider.set = IF n = 1 THEN <<e1>> ELSE <<e1, e2>>],
             status |-> InitStatus, deleted |-> FALSE]
  /\ \E o \in SetObjects :
       kube = [cm |-> present(keyDefaultValuesFrom, ""),
               cm2 |-> present(keyDefaultValuesFrom, ""), src |-> o]
  /\ tkube = [ns |-> TRUE, nsLabels |-> EmptyMap, objs |-> EmptyMap]
  /\ helm = [rel |-> NilPtr]
  /\ last = [op |-> "none", vals |-> NilPtr, err |-> NoErr, reads |-> {}]
  /\ rbCalls = 0
  /\ limitStable = TRUE
  /\ specEdited = FALSE

SpecSet == InitSet /\ [][Compose]_vars

(* what entry s of the set list resolves to: the value read through its *)
(* valueFrom when it has one, its inline value otherwise                *)
setResolved(k, s) ==
  IF s.valueFrom # NilPtr
  THEN getDataValueFromSource(k, Deref(s.valueFrom), keyDefaultSet)
  ELSE [val |-> s.value, err |-> NoErr, reads |-> {}]

(* entry i is the first of the set list that does not resolve to a usable value *)
firstUnusable(k, set, i) ==
  /\ i \in 1..Len(set)
  /\ setResolved(k, set[i]).err # NoErr \/ setResolved(k, set[i]).val = ""
  /\ \A j \in 1..(i - 1) :
       /\ setResolved(k, set[j]).err = NoErr
       /\ setResolved(k, set[j]).val # ""
       /\ set[j].name # ""

(* C28: when the composer reaches a set entry (valuesFrom and the inline     *)
(* values went through, every earlier set entry was applied) whose resolved  *)
(* value, inline or read through valueFrom, is the empty string, it fails    *)
(* with "missing value for --set" and returns no values; when the entry's    *)
(* valueFrom resolver fails, that error is returned, wrapped with "failed to *)
(* get value from source", and no values are returned.                       *)
C28_SetEntryValue ==
  last.op = "composeValuesFromSpec" =>
    \A i \in 1..Len(cr.spec.forProvider.set) :
      ( /\ valuesFromLoop(kube, cr.spec.forProvider.valuesFrom, 1, EmptyMap, {}).err = NoErr
        /\ yamlUnmarshal(cr.spec.forProvider.values).err = NoErr
        /\ firstUnusable(kube, cr.spec.forProvider.set, i) ) =>
        /\ last.vals = NilPtr
        /\ setResolved(kube, cr.spec.forProvider.set[i]).err # NoErr =>
             last.err = Wrap(setResolved(kube, cr.spec.forProvider.set[i]).err,
                             errFailedToGetValueFromSource)
        /\ setResolved(kube, cr.spec.forProvider.set[i]).err = NoErr =>
             last.err = errMissingValueForSet

(* a second entry with an inline value and a valueFrom whose optional source *)
(* is absent resolves to "": the composer stopped there, after a good entry  *)
C28_Witness ==
  /\ last.op = "composeValuesFromSpec"
  /\ Len(cr.spec.forProvider.set) = 2
  /\ firstUnusable(kube, cr.spec.forProvider.set, 2)
  /\ cr.spec.forProvider.set[2].value = "1"
  /\ cr.spec.forProvider.set[2].valueFrom # NilPtr
  /\ setResolved(kube, cr.spec.forProvider.set[2]).err = NoErr
  /\ last.err = errMissingValueForSet
  /\ last.vals = NilPtr

(* C38: in a set entry that has valueFrom the inline value is ignored: the     *)
(* composer returns the same values, error and reads whatever the inline     *)
(* value of that entry is; and when that entry is reached and its source is   *)
(* optional and absent, so that it resolves to the empty string, the composer *)
(* fails with "missing value for --set" although the inline value is set.     *)
C38_ValueFromWins ==
  last.op = "composeValuesFromSpec" =>
    LET fp == cr.spec.forProvider
        res(r) == [vals |-> r.vals, err |-> r.err, reads |-> r.reads]
    IN \A i \in 1..Len(fp.set) :
         fp.set[i].valueFrom # NilPtr =>
           /\ \A x \in {"", "1", "9"} :
                res(composeValuesFromSpec(kube, [fp EXCEPT !.set[i].value = x])) = res(last)
           /\ ( /\ valuesFromLoop(kube, fp.valuesFrom, 1, EmptyMap, {}).err = NoErr
                /\ yamlUnmarshal(fp.values).err = NoErr
                /\ firstUnusable(kube, fp.set, i)
                /\ getDataValueFromSource(kube, Deref(fp.set[i].valueFrom),
                                          keyDefaultSet).err = NoErr ) =>
                 /\ last.err = errMissingValueForSet
                 /\ last.vals = NilPtr

(* a single entry a with the inline value "1" and a valueFrom whose source    *)
(* holds "2": the composed values carry 2 under a                             *)
C38_Witness ==
  /\ last.op = "composeValuesFromSpec"
  /\ Len(cr.spec.forProvider.set) = 1
  /\ cr.spec.forProvider.set[1].name = "a"
  /\ cr.spec.forProvider.set[1].value = "1"
  /\ cr.spec.forProvider.set[1].valueFrom # NilPtr
  /\ kube.src = present(keyDefaultSet, "2")
  /\ last.err = NoErr
  /\ last.vals # NilPtr
  /\ last.vals # composeValuesFromSpec(kube, [cr.spec.forProvider EXCEPT
                                                !.set[1].valueFrom = NilPtr]).vals

(***************************************************************************)
(* deploy on Releases whose sources, pull secret and patch documents may   *)
(* fail, while the user edits the patch document.                          *)
(***************************************************************************)
pullSecret == [get |-> NoErr, data |-> Ptr([username |-> "u", password |-> "p"])]

badPatches == present(keyDefaultPatchFrom, "patches: {")

InitRecord ==
  /\ \E name \in {"", "c1"},
        ref \in {[name |-> "", namespace |-> ""], [name |-> "creds", namespace |-> ""],
                 [name |-> "creds", namespace |-> "default"]} :
       cr = [spec |-> [InitSpec("", NilPtr) EXCEPT !.forProvider.chart.name = name,
                                                     !.forProvider.chart.pullSecretRef = ref],
             status |-> InitStatus, deleted |-> FALSE]
  /\ \E cm \in {InitKube.cm, absent}, creds \in {pullSecret, absent},
        pcm \in {InitKube.pcm, badPatches} :
       kube = [cm |-> cm, setcm |-> InitKube.setcm, pcm |-> pcm, creds |-> creds]
  /\ tkube = [ns |-> FALSE, nsLabels |-> EmptyMap, objs |-> [db |-> partObject]]
  /\ helm = [rel |-> NilPtr]
  /\ last = NoOp
  /\ rbCalls = 0
  /\ limitStable = TRUE
  /\ specEdited = FALSE

(* Update on the deploy branch while the user rewrites the patch document: the *)
(* write lands after getFromSpec read it and before deploy returns             *)
UpdateDuringEdit ==
  /\ updatePath(cr) = "deploy"
  /\ \E t \in PatchTexts \ {Deref(kube.pcm.data)[keyDefaultPatchFrom]} :
       DeployStep("Update", cr, tkube, "Upgrade", errFailedToUpgrade, <<>>,
                  [kube EXCEPT !.pcm = present(keyDefaultPatchFrom, t)])

NextRecord ==
  \/ Observe
  \/ (MayCreate /\ Create)
  \/ (MayUpdate /\ Update)
  \/ (MayUpdate /\ UpdateDuringEdit)
  \/ EditPatches

SpecRecord == InitRecord /\ [][NextRecord]_vars

(* the errors deploy returns for a failure between the pull and the helm action *)
deployEarlyErrors ==
  {Wrap(e, m) : e \in {"failed to pull chart", Wrap(errKubeUpdate, errFailedToSetName),
                       Wrap(errKubeUpdate, errFailedToSetVersion)},
                m \in {errFailedToInstall, errFailedToUpgrade}}

(* the step ran deploy with the helm action named action *)
deployRan(action) ==
  /\ last'.op = (IF action = "Install" THEN "Create" ELSE "Update")
  /\ last'.path = "deploy"

(* C29: deploy records status.patchesSha and status.atProvider only after   *)
(* the helm action returned a release and no error: patchesSha is then the  *)
(* digest of the patch list deploy loaded before the action, also when the  *)
(* patch document was rewritten meanwhile, and atProvider is the            *)
(* observation of the returned release.  When deploy returns an error       *)
(* (values, credentials, patches, pull, late-init, the action, a nil        *)
(* release) both are left as they were, and when the failure precedes the   *)
(* action the action is not called and the release history is untouched.    *)
C29_RecordAfterAction ==
  [][\A action \in {"Install", "Upgrade"} :
       deployRan(action) =>
         LET fp == cr.spec.forProvider
             cv == composeValuesFromSpec(kube, fp)
             creds == repoCredsFromSecret(kube, fp.chart.pullSecretRef)
             p == getFromSpec(kube, fp.patchesFrom)
             called == \E i \in 1..Len(last'.calls) : last'.calls[i] = action
         IN /\ last'.err = NoErr =>
                 /\ called
                 /\ helm'.rel # NilPtr
                 /\ cr'.status.patchesSha = shaOf(p.patches)
                 /\ cr'.status.atProvider = generateObservation(Deref(helm'.rel))
            /\ last'.err # NoErr =>
                 /\ cr'.status.patchesSha = cr.status.patchesSha
                 /\ cr'.status.atProvider = cr.status.atProvider
            /\ (cv.err # NoErr \/ creds.err # NoErr \/ p.err # NoErr
                  \/ last'.err \in deployEarlyErrors) =>
                 /\ last'.err # NoErr
                 /\ ~called
                 /\ helm' = helm
            /\ last'.err = Wrap(errLastReleaseIsNil,
                                IF action = "Install" THEN errFailedToInstall
                                ELSE errFailedToUpgrade) =>
                 called
    ]_vars

(* an upgrade went through while the patch document was rewritten from p1 to *)
(* p2: the digest recorded is the one of the list that was passed            *)
C29_Witness ==
  /\ last.op = "Update"
  /\ last.path = "deploy"
  /\ last.err = NoErr
  /\ kube.pcm = present(keyDefaultPatchFrom, "patches: [p2]")
  /\ cr.status.patchesSha = shaOf(<<"p1">>)
  /\ cr.status.atProvider.revision = 2

(***************************************************************************)
(* Helm gateway: the install and upgrade actions of a client and their     *)
(* post-renderer.  In this specification helm is the client the handle of  *)
(* the running reconcile owns, and last the call made on it.               *)
(***************************************************************************)
(* NewClient: action.NewInstall and action.NewUpgrade leave PostRenderer nil *)
NewClient ==
  [rel |-> NilPtr, installClient |-> [PostRenderer |-> NilPtr],
   upgradeClient |-> [PostRenderer |-> NilPtr]]

KustomizationRender(patches) == [patches |-> patches]

(* the manifests a chart renders to: a YAML text no patch was applied to *)
Manifests ==
  {[yaml |-> t, patched |-> <<>>] : t \in {"a: 1\nb: 2\n", "b: 2\na: 1\n", "# c\na: 1\n"}}

(* ResMap.AsYaml: the documents written anew, keys in order, comments dropped *)
AsYaml(text) ==
  CASE text = "b: 2\na: 1\n" -> "a: 1\nb: 2\n"
    [] text = "# c\na: 1\n"  -> "a: 1\n"
    [] OTHER                 -> text

(* KustomizationRender.Run: the kustomization of the rendered manifests under kr.patches *)
postRender(kr, renderedManifests) ==
  [yaml |-> AsYaml(renderedManifests.yaml), patched |-> renderedManifests.patched \o kr.patches]

(* what the helm action applies: the rendered manifests, through its post-renderer if any *)
actionRun(act, renderedManifests) ==
  IF act.PostRenderer # NilPtr THEN postRender(Deref(act.PostRenderer), renderedManifests)
  ELSE renderedManifests

clientInstall_always(hc, patches) ==
  [hc EXCEPT !.installClient.PostRenderer = Ptr(KustomizationRender(patches))]

(* client.Install up to installClient.Run *)
clientInstall(hc, patches) ==
  [hc EXCEPT !.installClient.PostRenderer =
               IF Len(patches) > 0 THEN Ptr(KustomizationRender(patches)) ELSE @]

(* client.Upgrade up to upgradeClient.Run *)
clientUpgrade(hc, patches) ==
  [hc EXCEPT !.upgradeClient.PostRenderer =
               IF Len(patches) > 0 THEN Ptr(KustomizationRender(patches)) ELSE @]

InitGateway ==
  /\ \E from \in PatchLists :
       cr = [spec |-> [InitSpec("", NilPtr) EXCEPT !.forProvider.patchesFrom = from],
             status |-> InitStatus, deleted |-> FALSE]
  /\ \E t \in PatchDocs, t2 \in {"patches: [p1]", "patches: [p2]"} :
       kube = [InitKube EXCEPT !.pcm = present(keyDefaultPatchFrom, t)]
                @@ [pcm2 |-> present(keyDefaultPatchFrom, t2)]
  /\ tkube = [ns |-> TRUE, nsLabels |-> EmptyMap, objs |-> EmptyMap]
  /\ helm = NewClient
  /\ last = [op |-> "Connect"]
  /\ rbCalls = 0
  /\ limitStable = TRUE
  /\ specEdited = FALSE

(* Connect: every reconcile builds the handle and its client anew *)
Connect ==
  /\ last.op # "Connect"
  /\ helm' = NewClient
  /\ last' = [op |-> "Connect"]
  /\ UNCHANGED <<cr, kube, tkube, rbCalls, limitStable, specEdited>>

(* the one deploy of a reconcile: Install with the patches deploy loaded *)
Install ==
  /\ last.op = "Connect"
  /\ getFromSpec(kube, cr.spec.forProvider.patchesFrom).err = NoErr
  /\ \E m \in Manifests :
       LET p == getFromSpec(kube, cr.spec.forProvider.patchesFrom).patches
       IN /\ helm' = clientInstall(helm, p)
          /\ last' = [op |-> "Install", patches |-> p, rendered |-> m,
                      applied |-> actionRun(clientInstall(helm, p).installClient, m)]
  /\ UNCHANGED <<cr, kube, tkube, rbCalls, limitStable, specEdited>>

(* the one deploy of a reconcile: Upgrade with the patches deploy loaded *)
Upgrade ==
  /\ last.op = "Connect"
  /\ getFromSpec(kube, cr.spec.forProvider.patchesFrom).err = NoErr
  /\ \E m \in Manifests :
       LET p == getFromSpec(kube, cr.spec.forProvider.patchesFrom).patches
       IN /\ helm' = clientUpgrade(helm, p)
          /\ last' = [op |-> "Upgrade", patches |-> p, rendered |-> m,
                      applied |-> actionRun(clientUpgrade(helm, p).upgradeClient, m)]
  /\ UNCHANGED <<cr, kube, tkube, rbCalls, limitStable, specEdited>>

NextGateway == Connect \/ Install \/ Upgrade

SpecGateway == InitGateway /\ [][NextGateway]_vars

(* the helm action the last call ran *)
actionOf(hc, op) == IF op = "Install" THEN hc.installClient ELSE hc.upgradeClient

(* C30: after Install or Upgrade was called on the client of a reconcile,   *)
(* the helm action it ran has a post-renderer exactly when the patch list   *)
(* of the call was not empty; the post-renderer carries the patches of the  *)
(* call, and with an empty list the manifests applied are the rendered      *)
(* ones, unmodified.                                                         *)
C30_PostRenderer ==
  last.op \in {"Install", "Upgrade"} =>
    /\ actionOf(helm, last.op).PostRenderer # NilPtr <=> Len(last.patches) > 0
    /\ Len(last.patches) > 0 =>
         /\ Deref(actionOf(helm, last.op).PostRenderer) = KustomizationRender(last.patches)
         /\ last.applied.patched = last.patches
    /\ Len(last.patches) = 0 => last.applied = last.rendered

(* an Install without patches applied manifests a kustomization would have rewritten *)
C30_Witness ==
  /\ last.op = "Install"
  /\ last.patches = <<>>
  /\ helm.installClient.PostRenderer = NilPtr
  /\ AsYaml(last.rendered.yaml) # last.rendered.yaml
  /\ last.applied = last.rendered

(***************************************************************************)
(* Chart resolution of the helm client on the file system.  fs is the part *)
(* of the file system the client works on: cache, the chart files in the   *)
(* cache directory; tmp, the temporary pull directories under it; work,    *)
(* the post-render workspaces.  The results of the operating system and of *)
(* the helm library are inputs of the operators.                           *)
(***************************************************************************)
chartCache == "/tmp/charts"

errFailedToCheckIfLocalChartExists == "failed to check if cached chart file exists"

errFailedToPullChart == "failed to pull chart"

errFailedToLoadChart == "failed to load chart"

errFailedToParseURL == "failed to parse URL"

errOS == "permission denied"

(* strings.Join(fileNames, ",") *)
RECURSIVE joinNames(_)
joinNames(files) ==
  IF files = <<>> THEN ""
  ELSE IF Len(files) = 1 THEN files[1]
  ELSE files[1] \o "," \o joinNames(Tail(files))

(* errors.Errorf(errUnexpectedDirContentTmpl, ...) *)
errUnexpectedDirContent(files) == "expected 1 .tgz chart file, got [" \o joinNames(files) \o "]"

filepathJoin(dir, name) == dir \o "/" \o name

(* the temporary directories ioutil.TempDir may name, the workspaces os.MkdirTemp may name *)
TmpDirs == {"/tmp/charts/001", "/tmp/charts/002"}

WorkDirs == {"/tmp/helm-post-render1", "/tmp/helm-post-render2"}

(* the chart URLs of the model *)
ChartURLs == {"", "https://r/c1-v1.tgz", "oci://r/c1", "oci://r/c1:v1", "oci://r/c1:%zz"}

(* registry.IsOCI *)
IsOCI(u) == u \in {"oci://r/c1", "oci://r/c1:v1", "oci://r/c1:%zz"}

(* url.Parse followed by path.Base of the path *)
urlParse(u) ==
  CASE u = "https://r/c1-v1.tgz" -> [err |-> NoErr, base |-> "c1-v1.tgz", path |-> "/c1-v1.tgz"]
    [] u = "oci://r/c1"          -> [err |-> NoErr, base |-> "c1", path |-> "/c1"]
    [] u = "oci://r/c1:v1"       -> [err |-> NoErr, base |-> "c1:v1", path |-> "/c1:v1"]
    [] u = "oci://r/c1:%zz"      -> [err |-> "invalid URL escape", base |-> "", path |-> ""]
    [] OTHER                     -> [err |-> NoErr, base |-> "", path |-> ""]

(* resolveOCIChartVersion: the URL without its tag, and the tag *)
resolveOCIChartVersion(u) ==
  IF ~IsOCI(u) THEN [err |-> "url not prefixed with oci://, got [" \o u \o "]", base |-> "", v |-> ""]
  ELSE IF urlParse(u).err # NoErr
  THEN [err |-> Wrap(urlParse(u).err, errFailedToParseURL), base |-> "", v |-> ""]
  ELSE IF u = "oci://r/c1:v1" THEN [err |-> NoErr, base |-> "c1", v |-> "v1"]
  ELSE [err |-> NoErr, base |-> urlParse(u).base, v |-> ""]

resolveChartFilePath(name, version) == filepathJoin(chartCache, name \o "-" \o version \o ".tgz")

(* what pullChart may leave in the directory it pulls into: an error, or the files *)
(* helm wrote, in the order ioutil.ReadDir lists them                              *)
pullChartResults(chartSpec) ==
  {[err |-> Wrap("chart not found", errFailedToPullChart), files |-> <<>>],
   [err |-> NoErr, files |-> <<>>],
   [err |-> NoErr, files |-> <<"c1-v2.tgz">>],
   [err |-> NoErr, files |-> <<"c1-v2.tgz", "c1-v2.tgz.prov">>]}

(* getChartFileName on a directory holding files *)
getChartFileName(files) ==
  IF Len(files) # 1 THEN [name |-> "", err |-> errUnexpectedDirContent(files)]
  ELSE [name |-> files[1], err |-> NoErr]

(* ioutil.TempDir made the directory d *)
mkTmp(fs, d) == [fs EXCEPT !.tmp = @ \cup {d}]

(* the deferred os.RemoveAll(tmpDir): rm is its error, which is logged only *)
removeAll(fs, d, rm) == IF rm = NoErr THEN [fs EXCEPT !.tmp = @ \ {d}] ELSE fs

pullLatestChartVersion_keepOnError(fs, d, mk, pulled, ren, rm) ==
  IF mk # NoErr THEN [path |-> "", err |-> mk, fs |-> fs, made |-> FALSE, renamed |-> FALSE]
  ELSE IF pulled.err # NoErr
  THEN [path |-> "", err |-> pulled.err, fs |-> mkTmp(fs, d), made |-> TRUE,
        renamed |-> FALSE]
  ELSE IF getChartFileName(pulled.files).err # NoErr
  THEN [path |-> "", err |-> getChartFileName(pulled.files).err, fs |-> removeAll(mkTmp(fs, d), d, rm),
        made |-> TRUE, renamed |-> FALSE]
  ELSE IF ren # NoErr
  THEN [path |-> "", err |-> ren, fs |-> removeAll(mkTmp(fs, d), d, rm), made |-> TRUE, renamed |-> FALSE]
  ELSE [path |-> filepathJoin(chartCache, getChartFileName(pulled.files).name), err |-> NoErr,
        fs |-> removeAll([mkTmp(fs, d) EXCEPT !.cache = @ \cup {getChartFileName(pulled.files).name}],
                         d, rm),
        made |-> TRUE, renamed |-> TRUE]

(* pullLatestChartVersion: d is the directory ioutil.TempDir names, mk its error, *)
(* pulled what pullChart left in d, ren the error of os.Rename, rm the error of   *)
(* the deferred os.RemoveAll                                                     *)
pullLatestChartVersion(fs, d, mk, pulled, ren, rm) ==
  IF mk # NoErr THEN [path |-> "", err |-> mk, fs |-> fs, made |-> FALSE, renamed |-> FALSE]
  ELSE IF pulled.err # NoErr
  THEN [path |-> "", err |-> pulled.err, fs |-> removeAll(mkTmp(fs, d), d, rm), made |-> TRUE,
        renamed |-> FALSE]
  ELSE IF getChartFileName(pulled.files).err # NoErr
  THEN [path |-> "", err |-> getChartFileName(pulled.files).err, fs |-> removeAll(mkTmp(fs, d), d, rm),
        made |-> TRUE, renamed |-> FALSE]
  ELSE IF ren # NoErr
  THEN [path |-> "", err |-> ren, fs |-> removeAll(mkTmp(fs, d), d, rm), made |-> TRUE, renamed |-> FALSE]
  ELSE [path |-> filepathJoin(chartCache, getChartFileName(pulled.files).name), err |-> NoErr,
        fs |-> removeAll([mkTmp(fs, d) EXCEPT !.cache = @ \cup {getChartFileName(pulled.files).name}],
                         d, rm),
        made |-> TRUE, renamed |-> TRUE]

(* pullLatestChartVersion of pkg/clients/helm/client.go: a failing pull and a *)
(* failing rename return the empty path and no error                         *)
pkgPullLatestChartVersion(fs, d, mk, pulled, ren, rm) ==
  IF mk # NoErr THEN [path |-> "", err |-> mk, fs |-> fs, made |-> FALSE, renamed |-> FALSE]
  ELSE IF pulled.err # NoErr
  THEN [path |-> "", err |-> NoErr, fs |-> removeAll(mkTmp(fs, d), d, rm), made |-> TRUE,
        renamed |-> FALSE]
  ELSE IF getChartFileName(pulled.files).err # NoErr
  THEN [path |-> "", err |-> getChartFileName(pulled.files).err, fs |-> removeAll(mkTmp(fs, d), d, rm),
        made |-> TRUE, renamed |-> FALSE]
  ELSE IF ren # NoErr
  THEN [path |-> "", err |-> NoErr, fs |-> removeAll(mkTmp(fs, d), d, rm), made |-> TRUE,
        renamed |-> FALSE]
  ELSE [path |-> filepathJoin(chartCache, getChartFileName(pulled.files).name), err |-> NoErr,
        fs |-> removeAll([mkTmp(fs, d) EXCEPT !.cache = @ \cup {getChartFileName(pulled.files).name}],
                         d, rm),
        made |-> TRUE, renamed |-> TRUE]

(* os.Stat of a path in the cache directory: st is an error other than "not exist" *)
statCache(fs, path, st) ==
  IF st # NoErr THEN st
  ELSE IF \E f \in fs.cache : filepathJoin(chartCache, f) = path THEN NoErr ELSE errNotFound

(* loader.Load: ld is the error of reading a file that is there *)
loaderLoad(fs, path, ld) ==
  IF \E f \in fs.cache : filepathJoin(chartCache, f) = path THEN ld
  ELSE "open " \o path \o ": no such file or directory"

(* PullAndLoadChart from os.Stat on: pulled is what pullChart leaves in the cache *)
(* directory when the file is not there                                           *)
statPullLoad(fs, path, st, pulled, ld, calls) ==
  IF statCache(fs, path, st) = errNotFound
  THEN IF pulled.err # NoErr
       THEN [chart |-> NilPtr, err |-> pulled.err, fs |-> fs, path |-> path,
             calls |-> calls \o <<"pullChart">>]
       ELSE [chart |-> IF loaderLoad([fs EXCEPT !.cache = @ \cup {pulled.files[i] :
                                                     i \in 1..Len(pulled.files)}],
                                     path, ld) = NoErr
                       THEN Ptr(path) ELSE NilPtr,
             err |-> Wrap(loaderLoad([fs EXCEPT !.cache = @ \cup {pulled.files[i] :
                                                     i \in 1..Len(pulled.files)}],
                                     path, ld), errFailedToLoadChart),
             fs |-> [fs EXCEPT !.cache = @ \cup {pulled.files[i] : i \in 1..Len(pulled.files)}],
             path |-> path, calls |-> calls \o <<"pullChart", "Load">>]
  ELSE IF statCache(fs, path, st) # NoErr
  THEN [chart |-> NilPtr, err |-> Wrap(st, errFailedToCheckIfLocalChartExists), fs |-> fs,
        path |-> path, calls |-> calls]
  ELSE [chart |-> IF loaderLoad(fs, path, ld) = NoErr THEN Ptr(path) ELSE NilPtr,
        err |-> Wrap(loaderLoad(fs, path, ld), errFailedToLoadChart), fs |-> fs,
        path |-> path, calls |-> calls \o <<"Load">>]

(* PullAndLoadChart after pullLatestChartVersion returned l *)
afterLatest(l, st, pulled, ld) ==
  IF l.err # NoErr
  THEN [chart |-> NilPtr, err |-> l.err, fs |-> l.fs, path |-> "",
        calls |-> <<"pullLatestChartVersion">>]
  ELSE statPullLoad(l.fs, l.path, st, pulled, ld, <<"pullLatestChartVersion">>)

(* which branch of the switch of PullAndLoadChart the chart spec takes *)
resolution_versionOnly(chartSpec) ==
  IF chartSpec.version \in {"", devel} THEN "latest"
  ELSE IF IsOCI(chartSpec.url) THEN "oci"
  ELSE IF chartSpec.url # "" THEN "url" ELSE "name"

resolution(chartSpec) ==
  IF chartSpec.url = "" /\ chartSpec.version \in {"", devel} THEN "latest"
  ELSE IF IsOCI(chartSpec.url)
  THEN IF resolveOCIChartVersion(chartSpec.url).err # NoErr THEN "ocierr"
       ELSE IF resolveOCIChartVersion(chartSpec.url).v = "" THEN "latest" ELSE "oci"
  ELSE IF chartSpec.url # "" THEN "url" ELSE "name"

(* client.PullAndLoadChart: l is what pullLatestChartVersion would return *)
PullAndLoadChartOn(fs, chartSpec, l, st, pulled, ld) ==
  CASE resolution(chartSpec) = "latest" -> afterLatest(l, st, pulled, ld)
    [] resolution(chartSpec) = "ocierr" ->
         [chart |-> NilPtr, err |-> resolveOCIChartVersion(chartSpec.url).err, fs |-> fs,
          path |-> "", calls |-> <<>>]
    [] resolution(chartSpec) = "oci" ->
         statPullLoad(fs, resolveChartFilePath(resolveOCIChartVersion(chartSpec.url).base,
                                               resolveOCIChartVersion(chartSpec.url).v),
                      st, pulled, ld, <<>>)
    [] resolution(chartSpec) = "url" ->
         IF urlParse(chartSpec.url).err # NoErr
         THEN [chart |-> NilPtr, err |-> Wrap(urlParse(chartSpec.url).err, errFailedToParseURL),
               fs |-> fs, path |-> "", calls |-> <<>>]
         ELSE statPullLoad(fs, filepathJoin(chartCache, urlParse(chartSpec.url).base),
                           st, pulled, ld, <<>>)
    [] OTHER ->
         statPullLoad(fs, resolveChartFilePath(chartSpec.name, chartSpec.version),
                      st, pulled, ld, <<>>)

(* PullAndLoadChart of pkg/clients/helm/client.go: the latest version is pulled *)
(* for an empty version only, and the path it returns is loaded as it is        *)
pkgPullAndLoadChartOn(fs, chartSpec, l, st, pulled, ld) ==
  IF chartSpec.url = "" /\ chartSpec.version = ""
  THEN IF l.err # NoErr
       THEN [chart |-> NilPtr, err |-> l.err, fs |-> l.fs, path |-> "",
             calls |-> <<"pullLatestChartVersion">>]
       ELSE [chart |-> IF loaderLoad(l.fs, l.path, ld) = NoErr THEN Ptr(l.path) ELSE NilPtr,
             err |-> Wrap(loaderLoad(l.fs, l.path, ld), errFailedToLoadChart), fs |-> l.fs,
             path |-> l.path, calls |-> <<"pullLatestChartVersion", "Load">>]
  ELSE IF chartSpec.url # "" /\ urlParse(chartSpec.url).err # NoErr
  THEN [chart |-> NilPtr, err |-> Wrap(urlParse(chartSpec.url).err, errFailedToParseURL),
        fs |-> fs, path |-> "", calls |-> <<>>]
  ELSE statPullLoad(fs, IF chartSpec.url # ""
                        THEN filepathJoin(chartCache, urlParse(chartSpec.url).base)
                        ELSE resolveChartFilePath(chartSpec.name, chartSpec.version),
                    st, pulled, ld, <<>>)

(* os.MkdirTemp made the workspace d *)
mkWork(fs, d) == [fs EXCEPT !.work = @ \cup {d}]

(* the deferred fsys.RemoveAll(d): rm is its error, which is logged only *)
removeWork(fs, d, rm) == IF rm = NoErr THEN [fs EXCEPT !.work = @ \ {d}] ELSE fs

(* the errors of the steps of KustomizationRender.Run between the two: marshalling *)
(* the kustomization, writing the two files, the kustomize run, AsYaml            *)
RunFailures ==
  {NoErr, "json: unsupported value", "write kustomization.yaml: no space left on device",
   "write helm-output.yaml: no space left on device", "no matches for Id", "yaml: invalid node"}

(* KustomizationRender.Run: d is the workspace os.MkdirTemp names, mk its error, *)
(* fail the error of the first failing step, rm the error of the deferred removal *)
kustomizationRun(fs, kr, m, d, mk, fail, rm) ==
  IF mk # NoErr THEN [out |-> NilPtr, err |-> mk, fs |-> fs, made |-> FALSE]
  ELSE IF fail # NoErr
  THEN [out |-> NilPtr, err |-> fail, fs |-> removeWork(mkWork(fs, d), d, rm), made |-> TRUE]
  ELSE [out |-> Ptr(postRender(kr, m)), err |-> NoErr, fs |-> removeWork(mkWork(fs, d), d, rm),
        made |-> TRUE]

InitPull ==
  /\ \E u \in ChartURLs, v \in {"", devel, "v1"} :
       cr = [spec |-> [InitSpec("", NilPtr) EXCEPT
                         !.forProvider.chart = [@ EXCEPT !.version = v] @@ [url |-> u]],
             status |-> InitStatus, deleted |-> FALSE]
  /\ kube = InitKube
  /\ tkube = [ns |-> TRUE, nsLabels |-> EmptyMap, objs |-> EmptyMap]
  /\ \E c \in {{}, {"c1-v1.tgz"}, {"c1-v2.tgz"}}, leaked \in BOOLEAN :
       helm = [cache |-> c, tmp |-> IF leaked THEN {"/tmp/charts/001"} ELSE {},
               work |-> IF leaked THEN {"/tmp/helm-post-render1"} ELSE {}]
  /\ last = [op |-> "none"]
  /\ rbCalls = 0
  /\ limitStable = TRUE
  /\ specEdited = FALSE

(* one chart resolution on the file system Init left: l is what                  *)
(* pullLatestChartVersion returns when it is called, r what PullAndLoadChart     *)
(* returned                                                                      *)
PullResult(op, d, pulled, ren, rm, l, r) ==
  /\ last.op = "none"
  /\ helm' = r.fs
  /\ last' = [op |-> op, d |-> d, pulled |-> pulled, ren |-> ren, rm |-> rm,
              latest |-> [path |-> l.path, err |-> l.err, made |-> l.made,
                          renamed |-> l.renamed],
              chart |-> r.chart, err |-> r.err, path |-> r.path, calls |-> r.calls,
              before |-> helm]
  /\ UNCHANGED <<cr, kube, tkube, rbCalls, limitStable, specEdited>>

PullAndLoadChart ==
  \E d \in TmpDirs \ helm.tmp, mk \in {NoErr, errOS}, ren \in {NoErr, errOS},
     rm \in {NoErr, errOS}, st \in {NoErr, errOS}, ld \in {NoErr, "gzip: invalid header"},
     pt \in pullChartResults(cr.spec.forProvider.chart),
     pc \in pullChartResults(cr.spec.forProvider.chart) :
    PullResult("PullAndLoadChart", d, pt, ren, rm,
               pullLatestChartVersion(helm, d, mk, pt, ren, rm),
               PullAndLoadChartOn(helm, cr.spec.forProvider.chart,
                                  pullLatestChartVersion(helm, d, mk, pt, ren, rm), st, pc, ld))

pkgPullAndLoadChart ==
  \E d \in TmpDirs \ helm.tmp, mk \in {NoErr, errOS}, ren \in {NoErr, errOS},
     rm \in {NoErr, errOS}, st \in {NoErr, errOS}, ld \in {NoErr, "gzip: invalid header"},
     pt \in pullChartResults(cr.spec.forProvider.chart),
     pc \in pullChartResults(cr.spec.forProvider.chart) :
    PullResult("pkgPullAndLoadChart", d, pt, ren, rm,
               pkgPullLatestChartVersion(helm, d, mk, pt, ren, rm),
               pkgPullAndLoadChartOn(helm, cr.spec.forProvider.chart,
                                     pkgPullLatestChartVersion(helm, d, mk, pt, ren, rm),
                                     st, pc, ld))

RunResult(d, rm, r) ==
  /\ last.op = "none"
  /\ helm' = r.fs
  /\ last' = [op |-> "Run", d |-> d, rm |-> rm, made |-> r.made, out |-> r.out, err |-> r.err,
              before |-> helm]
  /\ UNCHANGED <<cr, kube, tkube, rbCalls, limitStable, specEdited>>

(* KustomizationRender.Run, as the post-renderer of an install or upgrade *)
Run ==
  \E d \in WorkDirs \ helm.work, mk \in {NoErr, errOS}, fail \in RunFailures,
     rm \in {NoErr, errOS}, p \in {<<"p1">>, <<"p1", "p2">>}, m \in Manifests :
    RunResult(d, rm, kustomizationRun(helm, KustomizationRender(p), m, d, mk, fail, rm))

NextPull == PullAndLoadChart \/ Run

SpecPull == InitPull /\ [][NextPull]_vars

NextPkgPull == pkgPullAndLoadChart \/ Run

SpecPkgPull == InitPull /\ [][NextPkgPull]_vars

(* the last step resolved a chart and called pullLatestChartVersion, which made its directory *)
pulledLatest ==
  /\ last.op \in {"PullAndLoadChart", "pkgPullAndLoadChart"}
  /\ last.calls # <<>>
  /\ last.calls[1] = "pullLatestChartVersion"
  /\ last.latest.made

(* C31 as stated: after pullLatestChartVersion returned, its temporary pull *)
(* directory no longer exists, and after KustomizationRender.Run returned   *)
(* its workspace no longer exists, on every exit path.                      *)
C31_Original ==
  /\ pulledLatest => last.d \notin helm.tmp
  /\ (last.op = "Run" /\ last.made) => last.d \notin helm.work

(* C31, amended: on every exit path of pullLatestChartVersion and of        *)
(* KustomizationRender.Run after the directory was made, its removal is     *)
(* attempted: the directory no longer exists when os.RemoveAll returned no  *)
(* error, it is still there only when RemoveAll failed (which is logged and *)
(* does not change the result), and no other directory is touched.          *)
C31_TempDirRemoved ==
  /\ pulledLatest =>
       /\ last.rm = NoErr => last.d \notin helm.tmp
       /\ last.d \in helm.tmp => last.rm # NoErr
       /\ helm.tmp \ {last.d} = last.before.tmp
       /\ helm.work = last.before.work
  /\ (last.op = "Run" /\ last.made) =>
       /\ last.rm = NoErr => last.d \notin helm.work
       /\ last.d \in helm.work => last.rm # NoErr
       /\ helm.work \ {last.d} = last.before.work
       /\ helm.tmp = last.before.tmp

(* a pull that failed and a rename that failed: the directory is gone *)
C31_Witness ==
  /\ pulledLatest
  /\ last.op = "PullAndLoadChart"
  /\ last.err = errOS
  /\ last.pulled.err = NoErr
  /\ Len(last.pulled.files) = 1
  /\ last.rm = NoErr
  /\ last.d \notin helm.tmp
  /\ ~last.latest.renamed

(* the resolution called pullLatestChartVersion *)
calledLatest == last.calls # <<>> /\ last.calls[1] = "pullLatestChartVersion"

(* C32 as stated: whenever the version of the chart spec is empty or        *)
(* ">0.0.0-0", PullAndLoadChart pulls into a temporary directory.           *)
C32_Original ==
  (last.op = "PullAndLoadChart" /\ cr.spec.forProvider.chart.version \in {"", devel}) =>
    calledLatest

(* C32, amended: PullAndLoadChart pulls into a fresh temporary directory    *)
(* exactly when the URL is empty and the version is empty or ">0.0.0-0",    *)
(* or the URL is an OCI reference without a tag.  Then, when it returns no  *)
(* error, the single artifact was renamed into the cache directory and the  *)
(* chart was loaded from there; when the pull left no or several files in   *)
(* the temporary directory it fails with UnexpectedDirContent and the cache *)
(* is as before.  With a direct URL or a tagged OCI reference the cache     *)
(* path comes from the URL, whatever the version.                           *)
C32_LatestThroughTempDir ==
  last.op = "PullAndLoadChart" =>
    LET c == cr.spec.forProvider.chart
        latest == \/ c.url = "" /\ c.version \in {"", devel}
                  \/ /\ IsOCI(c.url)
                     /\ resolveOCIChartVersion(c.url).err = NoErr
                     /\ resolveOCIChartVersion(c.url).v = ""
    IN /\ latest <=> calledLatest
       /\ (latest /\ last.latest.made) => last.d \notin last.before.tmp
       /\ (latest /\ last.latest.made /\ last.pulled.err = NoErr
             /\ Len(last.pulled.files) # 1) =>
            /\ last.err = errUnexpectedDirContent(last.pulled.files)
            /\ last.chart = NilPtr
            /\ ~last.latest.renamed
            /\ helm.cache = last.before.cache
       /\ (latest /\ last.err = NoErr) =>
            /\ last.latest.renamed
            /\ Len(last.pulled.files) = 1
            /\ last.pulled.files[1] \in helm.cache
            /\ last.path = filepathJoin(chartCache, last.pulled.files[1])
            /\ last.chart = Ptr(last.path)
            /\ last.calls = <<"pullLatestChartVersion", "Load">>
       /\ (~latest /\ last.path # "") =>
            last.path \in {resolveChartFilePath(c.name, c.version),
                           filepathJoin(chartCache, urlParse(c.url).base),
                           resolveChartFilePath(resolveOCIChartVersion(c.url).base,
                                                resolveOCIChartVersion(c.url).v)}

(* the latest version was asked for and the pull left the chart and its provenance file *)
C32_Witness ==
  /\ last.op = "PullAndLoadChart"
  /\ cr.spec.forProvider.chart.url = ""
  /\ cr.spec.forProvider.chart.version = devel
  /\ calledLatest
  /\ Len(last.pulled.files) = 2
  /\ last.err = "expected 1 .tgz chart file, got [c1-v2.tgz,c1-v2.tgz.prov]"
  /\ helm.cache = last.before.cache

(* C40: pullLatestChartVersion returns an error whenever the pull into the  *)
(* temporary directory fails or the rename into the cache fails, it never   *)
(* returns an empty path without an error, and PullAndLoadChart then        *)
(* returns the error of the pull or of the rename, not a load error.        *)
C40_PullErrorReturned ==
  (last.op \in {"PullAndLoadChart", "pkgPullAndLoadChart"} /\ calledLatest
     /\ last.latest.made) =>
    /\ last.pulled.err # NoErr =>
         /\ last.latest.err = last.pulled.err
         /\ last.err = last.pulled.err
    /\ (last.pulled.err = NoErr /\ Len(last.pulled.files) = 1 /\ last.ren # NoErr) =>
         /\ last.latest.err = last.ren
         /\ last.err = last.ren
    /\ ~(last.latest.path = "" /\ last.latest.err = NoErr)
    /\ last.latest.err # NoErr => "Load" \notin {last.calls[i] : i \in 1..Len(last.calls)}

(***************************************************************************)
(* Two reconciles pulling the latest version of the same chart at the same *)
(* time, each through its own client.  helm is the cache directory: cache, *)
(* the chart file of the cache path (absent, partial while it is written,  *)
(* complete); tmp, each temporary directory (absent, empty, holding the    *)
(* chart file partial or complete, holding two files).  last[i] is         *)
(* reconcile i: the statement it is at, its temporary directory, the       *)
(* result of pullLatestChartVersion and of PullAndLoadChart.               *)
(***************************************************************************)
Pullers == {1, 2}

InitTwoPulls ==
  /\ cr = [spec |-> [InitSpec("", NilPtr) EXCEPT
                       !.forProvider.chart = [@ EXCEPT !.version = ""] @@ [url |-> ""]],
           status |-> InitStatus, deleted |-> FALSE]
  /\ kube = InitKube
  /\ tkube = [ns |-> TRUE, nsLabels |-> EmptyMap, objs |-> EmptyMap]
  /\ \E c \in {"absent", "complete"} :
       helm = [cache |-> c, tmp |-> [d \in TmpDirs |-> "absent"]]
  /\ last = [i \in Pullers |->
               [pc |-> "TempDir", d |-> "", err |-> NoErr, path |-> "", renamed |-> FALSE,
                rm |-> NoErr, chart |-> ""]]
  /\ rbCalls = 0
  /\ limitStable = TRUE
  /\ specEdited = FALSE

(* reconcile i moves to the statement pc with the fields of its record changed to r *)
stepTo(i, r) ==
  /\ last' = [last EXCEPT ![i] = r]
  /\ UNCHANGED <<cr, kube, tkube, rbCalls, limitStable, specEdited>>

(* ioutil.TempDir(chartCache, ""): a directory that does not exist yet, or an error *)
StepTempDir(i) ==
  /\ last[i].pc = "TempDir"
  /\ \/ \E d \in {x \in TmpDirs : helm.tmp[x] = "absent"} :
          /\ helm' = [helm EXCEPT !.tmp[d] = "empty"]
          /\ stepTo(i, [last[i] EXCEPT !.pc = "pullChart", !.d = d])
     \/ /\ UNCHANGED helm
        /\ stepTo(i, [last[i] EXCEPT !.pc = "done", !.err = errOS])

(* pullChart(spec, creds, tmpDir): helm starts to write the chart file, or fails *)
StepPullChart(i) ==
  /\ last[i].pc = "pullChart"
  /\ \/ /\ helm' = [helm EXCEPT !.tmp[last[i].d] = "partial"]
        /\ stepTo(i, [last[i] EXCEPT !.pc = "pulling"])
     \/ /\ UNCHANGED helm
        /\ stepTo(i, [last[i] EXCEPT !.pc = "RemoveAll",
                                     !.err = Wrap("chart not found", errFailedToPullChart)])

(* pullChart returns: the file is written, alone or with a second file, or the write failed *)
StepPulled(i) ==
  /\ last[i].pc = "pulling"
  /\ \/ \E c \in {"file", "two"} :
          /\ helm' = [helm EXCEPT !.tmp[last[i].d] = c]
          /\ stepTo(i, [last[i] EXCEPT !.pc = "getChartFileName"])
     \/ /\ UNCHANGED helm
        /\ stepTo(i, [last[i] EXCEPT !.pc = "RemoveAll",
                                     !.err = Wrap("unexpected EOF", errFailedToPullChart)])

(* getChartFileName(tmpDir) *)
StepGetChartFileName(i) ==
  /\ last[i].pc = "getChartFileName"
  /\ UNCHANGED helm
  /\ IF helm.tmp[last[i].d] = "file"
     THEN stepTo(i, [last[i] EXCEPT !.pc = "Rename"])
     ELSE stepTo(i, [last[i] EXCEPT !.pc = "RemoveAll",
                        !.err = errUnexpectedDirContent(<<"c1-v2.tgz", "c1-v2.tgz.prov">>)])

(* the chart file of a temporary directory in state t *)
fileContent(t) == IF t = "partial" THEN "partial" ELSE "complete"

(* os.Rename(tmpDir/file, chartCache/file): the file replaces the one of the cache *)
(* path in one step, or an error                                                   *)
StepRename(i) ==
  /\ last[i].pc = "Rename"
  /\ \/ /\ helm' = [helm EXCEPT !.cache = fileContent(helm.tmp[last[i].d]),
                                !.tmp[last[i].d] = "empty"]
        /\ stepTo(i, [last[i] EXCEPT !.pc = "RemoveAll", !.renamed = TRUE,
                         !.path = filepathJoin(chartCache, "c1-v2.tgz")])
     \/ /\ UNCHANGED helm
        /\ stepTo(i, [last[i] EXCEPT !.pc = "RemoveAll", !.err = errOS])

StepRemoveAll_siblings(i) ==
  /\ last[i].pc = "RemoveAll"
  /\ \/ /\ helm' = [helm EXCEPT !.tmp = [d \in TmpDirs |-> "absent"]]
        /\ stepTo(i, [last[i] EXCEPT !.pc = IF last[i].err = NoErr THEN "Stat" ELSE "done"])
     \/ /\ UNCHANGED helm
        /\ stepTo(i, [last[i] EXCEPT !.pc = IF last[i].err = NoErr THEN "Stat" ELSE "done",
                                     !.rm = errOS])

(* the deferred os.RemoveAll(tmpDir), run when pullLatestChartVersion returns: its *)
(* error is logged and the result stands                                           *)
StepRemoveAll(i) ==
  /\ last[i].pc = "RemoveAll"
  /\ \/ /\ helm' = [helm EXCEPT !.tmp[last[i].d] = "absent"]
        /\ stepTo(i, [last[i] EXCEPT !.pc = IF last[i].err = NoErr THEN "Stat" ELSE "done"])
     \/ /\ UNCHANGED helm
        /\ stepTo(i, [last[i] EXCEPT !.pc = IF last[i].err = NoErr THEN "Stat" ELSE "done",
                                     !.rm = errOS])

(* os.Stat(chartFilePath) and loader.Load(chartFilePath) of PullAndLoadChart; the *)
(* chart file is pulled into the cache directory when Stat does not find it       *)
StepStatLoad(i) ==
  /\ last[i].pc = "Stat"
  /\ IF helm.cache = "absent"
     THEN /\ helm' = [helm EXCEPT !.cache = "complete"]
          /\ stepTo(i, [last[i] EXCEPT !.pc = "done", !.chart = "complete"])
     ELSE /\ UNCHANGED helm
          /\ \/ stepTo(i, [last[i] EXCEPT !.pc = "done", !.chart = helm.cache])
             \/ stepTo(i, [last[i] EXCEPT !.pc = "done",
                              !.err = Wrap("gzip: invalid header", errFailedToLoadChart)])

NextTwoPulls ==
  \E i \in Pullers :
    \/ StepTempDir(i)
    \/ StepPullChart(i)
    \/ StepPulled(i)
    \/ StepGetChartFileName(i)
    \/ StepRename(i)
    \/ StepRemoveAll(i)
    \/ StepStatLoad(i)

SpecTwoPulls == InitTwoPulls /\ [][NextTwoPulls]_vars

bothDone == \A i \in Pullers : last[i].pc = "done"

(* C39 as stated: after both reconciles finished, the cache path holds a    *)
(* complete chart file and no temporary directory remains.                  *)
C39_Original ==
  bothDone => (helm.cache = "complete" /\ \A d \in TmpDirs : helm.tmp[d] = "absent")

(* reconcile j is between ioutil.TempDir and the deferred os.RemoveAll *)
holdsDir(j) == last[j].pc \in {"pullChart", "pulling", "getChartFileName", "Rename", "RemoveAll"}

(* a step that reconcile j did not take leaves the temporary directory of j as it was *)
ownDirOnly ==
  \A j \in Pullers :
    (last'[j] = last[j] /\ holdsDir(j)) =>
      helm'.tmp[last[j].d] = helm.tmp[last[j].d]

(* the state of the cache directory while and after the two reconciles run *)
cacheSound ==
  /\ helm.cache # "partial"
  /\ (\E i \in Pullers : last[i].renamed) => helm.cache = "complete"
  /\ \A i \in Pullers, j \in Pullers :
       (i # j /\ holdsDir(i) /\ holdsDir(j)) => last[i].d # last[j].d
  /\ \A i \in Pullers :
       (last[i].pc = "done" /\ last[i].err = NoErr) =>
         (last[i].renamed /\ last[i].chart = "complete")
  /\ bothDone =>
       \A d \in TmpDirs :
         helm.tmp[d] # "absent" => \E i \in Pullers : last[i].d = d /\ last[i].rm # NoErr

(* C39, amended: two reconciles pulling the latest version of the same      *)
(* chart each work in a temporary directory of their own: no step of one    *)
(* changes the directory of the other while that one is running; the cache  *)
(* path never holds a partly written file and holds a complete chart file   *)
(* from the first successful rename on; a reconcile that returns no error   *)
(* loaded a complete chart; after both finished a temporary directory is    *)
(* left only where its RemoveAll failed.                                    *)
C39_TwoPulls == [][ownDirOnly]_vars /\ []cacheSound

(* both reconciles renamed their file into the cache path and finished without error *)
C39_Witness ==
  /\ bothDone
  /\ \A i \in Pullers : last[i].renamed /\ last[i].err = NoErr /\ last[i].chart = "complete"
  /\ helm.cache = "complete"
  /\ \A d \in TmpDirs : helm.tmp[d] = "absent"

(***************************************************************************)
(* The evaluations of the rollback predicates in Observe and Update, with  *)
(* the nil dereference of rollBackLimitReached as an outcome of its own.   *)
(***************************************************************************)
(* rollBackLimitReached(cr): *cr.Spec.RollbackRetriesLimit panics on a nil limit *)
limitReachedEval(c) ==
  IF c.spec.rollbackRetriesLimit = NilPtr THEN [panic |-> TRUE, v |-> FALSE]
  ELSE [panic |-> FALSE, v |-> rollBackLimitReached(c)]

upToDateEval_eager(c) ==
  [calls |-> <<"shouldRollBack", "rollBackLimitReached">>,
   panic |-> limitReachedEval(c).panic,
   v |-> c.status.synced /\ ~(shouldRollBack(c) /\ ~limitReachedEval(c).v)]

(* cr.Status.Synced && !(shouldRollBack(cr) && !rollBackLimitReached(cr)) in Observe: *)
(* the calls made, left to right with && cutting short, and the value                *)
upToDateEval(c) ==
  IF ~c.status.synced THEN [calls |-> <<>>, panic |-> FALSE, v |-> FALSE]
  ELSE IF ~shouldRollBack(c) THEN [calls |-> <<"shouldRollBack">>, panic |-> FALSE, v |-> TRUE]
  ELSE [calls |-> <<"shouldRollBack", "rollBackLimitReached">>,
        panic |-> limitReachedEval(c).panic, v |-> limitReachedEval(c).v]

(* if shouldRollBack(cr) { if !rollBackLimitReached(cr) { ... } } in Update: the calls *)
(* made and whether a rollback or uninstall is attempted                             *)
updateEval(c) ==
  IF ~shouldRollBack(c) THEN [calls |-> <<"shouldRollBack">>, panic |-> FALSE, v |-> FALSE]
  ELSE [calls |-> <<"shouldRollBack", "rollBackLimitReached">>,
        panic |-> limitReachedEval(c).panic, v |-> ~limitReachedEval(c).v]

EvalObserve ==
  /\ last.op = "none"
  /\ last' = [op |-> "Observe"] @@ upToDateEval(cr)
  /\ UNCHANGED <<cr, kube, tkube, helm, rbCalls, limitStable, specEdited>>

EvalUpdate ==
  /\ last.op = "none"
  /\ last' = [op |-> "Update"] @@ updateEval(cr)
  /\ UNCHANGED <<cr, kube, tkube, helm, rbCalls, limitStable, specEdited>>

NextGuard == EvalObserve \/ EvalUpdate

SpecGuard == InitRollback /\ [][NextGuard]_vars

(* C33: for every combination of limit, synced, state and failed, Observe   *)
(* and Update evaluate rollBackLimitReached only after shouldRollBack       *)
(* returned true, hence never for a Release whose rollbackRetriesLimit is   *)
(* unset: the dereference never panics, and the values are those of         *)
(* ResourceUpToDate and of the branch Update takes.                         *)
C33_LimitGuarded ==
  last.op \in {"Observe", "Update"} =>
    /\ ~last.panic
    /\ (\E i \in 1..Len(last.calls) : last.calls[i] = "rollBackLimitReached") =>
         /\ cr.spec.rollbackRetriesLimit # NilPtr
         /\ shouldRollBack(cr)
         /\ last.calls[1] = "shouldRollBack"
    /\ last.op = "Observe" => last.v = resourceUpToDate(cr)
    /\ last.op = "Update" => (last.v <=> updatePath(cr) \in {"Rollback", "Uninstall"})

(* no limit, in sync, the release failed: shouldRollBack is called and says no *)
C33_Witness ==
  /\ last.op = "Observe"
  /\ cr.spec.rollbackRetriesLimit = NilPtr
  /\ cr.status.synced
  /\ cr.status.atProvider.state = StatusFailed
  /\ last.calls = <<"shouldRollBack">>
  /\ last.v


(***************************************************************************)
(* Properties of the engine operations (Spec).                             *)
(***************************************************************************)
(* C34: Observe is read-only outside the in-memory status of the Release: on
   every path it writes nothing to the control plane or to the target cluster,
   its only helm call is GetLastRelease (no Install, Upgrade, Rollback or
   Uninstall, so the release history stays as it is), it leaves the spec and the
   deletion mark unchanged, and of the status it changes at most atProvider,
   synced, failed and the Available/Unavailable condition. *)
C34_ObserveReadOnly ==
  [][last'.op = "Observe" =>
       /\ kube' = kube
       /\ tkube' = tkube
       /\ helm' = helm
       /\ last'.writes = 0
       /\ last'.calls = <<"GetLastRelease">>
       /\ cr'.spec = cr.spec
       /\ cr'.deleted = cr.deleted
       /\ cr' = [cr EXCEPT !.status.atProvider = cr'.status.atProvider,
                           !.status.synced = cr'.status.synced,
                           !.status.failed = cr'.status.failed,
                           !.status.condition = cr'.status.condition]
       /\ cr'.status.condition \in {cr.status.condition, Available, Unavailable}]_vars

(* an Observe, after an edit of the spec, that found the release deployed and in
   sync: it set Available and kept the recorded digest of the patches *)
C34_Witness ==
  /\ last.op = "Observe"
  /\ last.path = "available"
  /\ cr.status.condition = Available
  /\ cr.status.synced
  /\ cr.status.failed = 0
  /\ cr.status.patchesSha # ""
  /\ rbCalls = 0
  /\ specEdited


(* C35: in the retry branch of Update status.failed is incremented by exactly one
   and nothing else of the Release changes, whether the Rollback or Uninstall
   that follows succeeds or returns an error; the counter stays within
   rollbackRetriesLimit; the one helm call is the Rollback or the Uninstall; and
   Update returns the error of that call as it is, without a wrapping message. *)
C35_RetryCounted ==
  [][(last'.op = "Update" /\ last'.path \in {"Uninstall", "Rollback"}) =>
       /\ cr' = [cr EXCEPT !.status.failed = cr.status.failed + 1]
       /\ cr.spec.rollbackRetriesLimit # NilPtr
       /\ cr'.status.failed <= Deref(cr.spec.rollbackRetriesLimit)
       /\ last'.calls = <<last'.path>>
       /\ \E r \in (IF last'.path = "Uninstall" THEN UninstallResults(helm)
                     ELSE RollbackResults(helm)) :
            r.helm = helm' /\ r.err = last'.err]_vars

(* a second Rollback in a row that returned the error of helm: it counted too *)
C35_Witness ==
  /\ last.op = "Update"
  /\ last.path = "Rollback"
  /\ last.err = errHelm
  /\ cr.status.failed = 2
  /\ rbCalls = 2


(* C37: every Create, Update or Delete makes at most one of the helm calls that
   change the release history (Install, Upgrade, Rollback, Uninstall): Create
   calls Install or none of them, Delete calls Uninstall, Update calls one of
   Upgrade, Rollback and Uninstall or none; and the history changes only in a
   step that made such a call. *)
C37_OneHelmCall ==
  [][LET changing(x) == x \in {"Install", "Upgrade", "Rollback", "Uninstall"}
         hc == SelectSeq(last'.calls, changing)
     IN /\ (last'.op \in {"Create", "Update", "Delete"} => Len(hc) <= 1)
        /\ (last'.op = "Create" => hc \in {<<>>, <<"Install">>})
        /\ (last'.op = "Delete" => hc = <<"Uninstall">>)
        /\ (last'.op = "Update" =>
              hc \in {<<>>, <<"Upgrade">>, <<"Rollback">>, <<"Uninstall">>})
        /\ (helm' # helm => Len(hc) = 1)]_vars

(* an Update whose Upgrade, made after the chart was pulled, returned an error:
   no Rollback followed in the same call *)
C37_Witness ==
  /\ last.op = "Update"
  /\ last.path = "deploy"
  /\ last.err = Wrap(errHelm, errFailedToUpgrade)
  /\ Len(last.calls) >= 2
  /\ last.calls[Len(last.calls)] = "Upgrade"
  /\ helm.rel # NilPtr


(***************************************************************************)
(* The engine on a release found in any state, with any count of failed    *)
(* attempts, while the user edits chart, values and patches and leaves the *)
(* retry limit and the deletion mark alone.                                *)
(***************************************************************************)
InitStuck ==
  /\ \E limit \in {NilPtr, Ptr(0), Ptr(2)}, failed \in 0..2 :
       cr = [spec |-> InitSpec("", limit),
             status |-> [InitStatus EXCEPT !.failed = failed], deleted |-> FALSE]
  /\ kube = InitKube
  /\ tkube = [ns |-> TRUE, nsLabels |-> EmptyMap, objs |-> [db |-> partObject]]
  /\ \E st \in {StatusDeployed, StatusFailed, StatusPendingInstall, StatusPendingUpgrade,
                 StatusPendingRollback}, rev \in {1, MaxRevision - 1} :
       helm = [rel |-> Ptr(newRelease(st, rev,
                                      [metadata |-> Ptr([name |-> "c1", version |-> "v1"])],
                                      [a |-> F(1), c |-> F(2)]))]
  /\ last = NoOp
  /\ rbCalls = 0
  /\ limitStable = TRUE
  /\ specEdited = FALSE

EditChart ==
  /\ ~cr.deleted
  /\ \E v \in {"v1", "v2"} \ {cr.spec.forProvider.chart.version} :
       cr' = [cr EXCEPT !.spec.forProvider.chart.version = v]
  /\ specEdited' = TRUE
  /\ last' = NoOp
  /\ UNCHANGED <<kube, tkube, helm, rbCalls, limitStable>>

NextStuck ==
  \/ Observe
  \/ (MayUpdate /\ Update)
  \/ EditValues
  \/ EditChart
  \/ EditPatches

SpecStuck == InitStuck /\ [][NextStuck]_vars

(* the retry limit of c is set and reached, and the last release of h is *)
(* pending-install or pending-upgrade *)
stuckPending(c, h) ==
  /\ c.spec.rollbackRetriesLimit # NilPtr
  /\ c.status.failed >= Deref(c.spec.rollbackRetriesLimit)
  /\ h.rel # NilPtr
  /\ Deref(Deref(h.rel).info).status \in {StatusPendingInstall, StatusPendingUpgrade}

(* C36: with rollbackRetriesLimit set, status.failed >= rollbackRetriesLimit and
   the last release pending-install or pending-upgrade: an Observe reports
   upToDate=false and leaves status.failed as it is, an Update makes no call at
   all and changes neither the Release nor the history, and after an Observe, an
   Update or an edit of chart, values or patches all of this is still so. *)
C36_StuckPending ==
  [][stuckPending(cr, helm) =>
       /\ (last'.op = "Observe" =>
             ~last'.out.upToDate /\ cr'.status.failed = cr.status.failed)
       /\ (last'.op = "Update" => last'.calls = <<>> /\ cr' = cr /\ helm' = helm)
       /\ stuckPending(cr', helm')]_vars

(* an Update that did nothing, on a release left pending-upgrade with the limit
   reached, after the user changed the chart version and the values *)
C36_Witness ==
  /\ stuckPending(cr, helm)
  /\ last.op = "Update"
  /\ last.path = "none"
  /\ Deref(Deref(helm.rel).info).status = StatusPendingUpgrade
  /\ cr.spec.forProvider.chart.version = "v2"
  /\ cr.spec.forProvider.values # ""
  /\ Deref(kube.pcm.data)[keyDefaultPatchFrom] # "patches: [p1]"
  /\ cr.status.failed > 0

====
